---- MODULE Spec2Model ----
(***************************************************************************)
(* Model of the cobra install pipeline: the dependency resolver            *)
(* (core/resolver.rs), the multi-level cache (core/cache.rs), the          *)
(* installation registry (core/package_manager.rs), the installer          *)
(* (core/installer.rs) and the index client (registry/client.rs).          *)
(*                                                                         *)
(* Each component has its own specification (SpecResolver, SpecCache,      *)
(* SpecRegistry, SpecInstaller, SpecFetch for the resolver with a cache    *)
(* attached, SpecCalls for callers sharing one cache, SpecGetPut and       *)
(* SpecPutClear for cache calls that overlap lock by lock, SpecParse for   *)
(* the dependency parser); the variables of the other components stay at   *)
(* their initial values.                                                   *)
(***************************************************************************)
EXTENDS Integers, Sequences, FiniteSets, TLC

VARIABLES
    \* ---- resolver (core/resolver.rs) ----
    dependencies,   \* the argument of resolve: the direct dependencies
    index,          \* what the remote index answers, revealed fetch by fetch
    issued,         \* the (name, spec) queries fetch_package_metadata was called with
    rpc,            \* position of resolve: "start", "expand", "done"
    graph,          \* petgraph Graph: [nodes: labels by node id, edges: <<from, to>>]
    node_map,       \* FxHashMap label -> node id
    all_packages,   \* FxHashMap label -> Package
    to_process,     \* worklist (Vec used as a stack)
    processed,      \* HashSet of labels
    resolve_result, \* what resolve returned
    \* ---- cache (core/cache.rs) ----
    memory,         \* L1: LruCache, least recently used first
    disk,           \* L2: the sled Db, kept by the file system between runs
    bloom,          \* the bits set in the Bloom filter's bitmap
    bloom_seed,     \* the random hash keys the Bloom filter was created with
    hits,
    misses,
    cache_result,   \* the last cache call and what it returned
    committed,      \* per key, the value of the last successful put of this run
    persisted,      \* per key, the value of the last successful put of any run
    \* ---- installation registry (core/package_manager.rs) ----
    registry_file,  \* cobra-registry.json: [exists, valid, packages]
    fs_paths,       \* the paths under the install directory that exist
    clock,          \* the wall clock, chrono::Utc::now()
    pm_result,      \* the last LocalPackageManager call and what it returned
    \* ---- installer (core/installer.rs) ----
    packages,       \* the plan install_parallel is called with
    archive,        \* per artifact, what the downloaded archive holds
    install_pc,     \* where install_parallel is: "idle", "running", "bridge"
    tasks,          \* the spawned per-package tasks
    sem_size,       \* the permits the semaphore is created with
    disk_writable,  \* whether the cache's disk takes writes during the installs
    permits,        \* the semaphore's free permits
    temp_files,     \* the files in the temp directory: package name -> bytes
    install_result, \* what the last install_parallel call returned
    previous_result,\* what the install_parallel call before it returned
    pth_calls,      \* create_pth_file calls of the current install run
    counts,         \* downloads, extractions and register calls of the run
    faults,         \* an unwritable disk, failed downloads and unusual archives so far
    \* ---- the resolver's metadata fetches (core/resolver.rs) ----
    fetches,        \* the fetch_package_metadata futures of the current try_join_all
    queries,        \* per (name, spec), the index queries of the resolve
    \* ---- callers of one shared cache (core/cache.rs) ----
    gets,           \* per caller, where its get call is
    completed,      \* the get calls that have returned since the last clear
    puts,           \* per caller, where its put call is
    clearing,       \* where the clear call is
    \* ---- the packages install_parallel leaves out (core/installer.rs) ----
    skipped,        \* per package the run found installed, its registry entry
    \* ---- the dependency parser (registry/client.rs) ----
    requirement,    \* the requirement string given to parse_dependency
    parsed,         \* what it returned
    \* ---- which component the behaviour exercises ----
    scenario

resolverVars == <<dependencies, index, issued, rpc, graph, node_map,
                  all_packages, to_process, processed, resolve_result>>

cacheVars == <<memory, disk, bloom, bloom_seed, hits, misses, cache_result,
               committed, persisted>>

registryVars == <<registry_file, fs_paths, clock, pm_result>>

installerVars == <<packages, archive, install_pc, tasks, sem_size,
                   disk_writable, permits, temp_files, install_result, previous_result, pth_calls, counts,
                   faults>>

fetchVars == <<fetches, queries>>

callVars == <<gets, completed, puts, clearing>>

parseVars == <<requirement, parsed>>

vars == <<resolverVars, cacheVars, registryVars, installerVars, fetchVars,
          callVars, parseVars, skipped, scenario>>

-----------------------------------------------------------------------------
(* Bounds *)

\* longest direct dependency list
MaxDirect == 2
\* total number of dependency declarations over all packages of the index
MaxEdges == 3
\* capacity of the L1 LruCache; the program's MEMORY_CACHE_ENTRIES is 1000
\* (lib.rs:103), scaled down so that the cache keys of the model overflow it
MemoryCacheEntries == 2
\* number of bits of the Bloom filter's bitmap, scaled down so that two keys
\* can cover the bits of a third
BloomBits == 3
\* gets counted by hits and misses before the counters stop the model
MaxAccesses == 3
\* latest time the wall clock reaches
MaxClock == 1

\* longest install plan
MaxPlan == 2

\* callers that share one cache
MaxCallers == 2

\* pieces of a requirement string
MaxTokens == 3

\* what goes wrong around the installer in a behaviour: a cache disk that
\* takes no writes, downloads the registry fails to serve, archives that are
\* not laid out as <name>/...
MaxFaults == 1

\* largest number of permits the semaphore is created with (the program's
\* MAX_CONCURRENT_INSTALLS is 16, more than any plan of the model is long)
MaxConcurrentInstalls == 2

-----------------------------------------------------------------------------
(* Generic helpers *)

SeqsUpTo(S, n) == UNION {[1..m -> S] : m \in 0..n}

Reverse(s) == [i \in 1..Len(s) |-> s[Len(s) + 1 - i]]

Range(s) == {s[i] : i \in 1..Len(s)}

EmptyMap == <<>>

\* HashMap::insert into a map that forgets its other keys
MapInsertAlone(m, k, v) == (k :> v)

\* HashMap::insert: the new value replaces an earlier one
MapInsert(m, k, v) == (k :> v) @@ m

-----------------------------------------------------------------------------
(* The remote index and the index client *)

\* the (name, version_spec) pairs a manifest or a package may declare
DepKinds == {[name |-> "a", version_spec |-> "*"],
             [name |-> "a", version_spec |-> "==1"],
             [name |-> "b", version_spec |-> "*"]}

\* the version the index reports at its "latest" endpoint
LatestVersion == "2"

RECURSIVE TrimStartMatches(_, _)
\* str::trim_start_matches: strips every leading repetition of pat
TrimStartMatches(s, pat) ==
    IF Len(pat) > 0 /\ Len(s) >= Len(pat) /\ SubSeq(s, 1, Len(pat)) = pat
    THEN TrimStartMatches(SubSeq(s, Len(pat) + 1, Len(s)), pat)
    ELSE s

\* RegistryClient::get_package_info, the version the query asks the index
\* for: the latest one for "*" and "", else the spec without its operator
RequestedVersion(version_spec) ==
    IF version_spec = "*" \/ version_spec = ""
    THEN LatestVersion
    ELSE TrimStartMatches(TrimStartMatches(TrimStartMatches(TrimStartMatches(
             TrimStartMatches(version_spec, "=="), ">="), "<="), "~="), "^")

Unknown == [status |-> "unknown"]

Failure(e) == [status |-> "err", err |-> e]

FetchErrors == {"PackageNotFound", "Network"}

\* an entry of the "urls" array of the index's JSON; url is "" when the entry
\* has no "url" string
UrlInfo(packagetype, url) == [packagetype |-> packagetype, url |-> url]

WheelUrl == "https://files/a.whl"

SdistUrl == "https://files/a.tar.gz"

\* the "urls" arrays the index serves
UrlArrays ==
    {<<>>,
     <<UrlInfo("bdist_egg", "https://files/a.egg")>>,
     <<UrlInfo("bdist_wheel", "")>>,
     <<UrlInfo("sdist", SdistUrl), UrlInfo("bdist_wheel", WheelUrl)>>,
     <<UrlInfo("bdist_wheel", ""), UrlInfo("sdist", SdistUrl)>>}

RECURSIVE FirstUrl(_, _)
\* get_package_info, one of its two loops over the "urls" array: the url of
\* the first entry of the package type, "" when it has none or there is no
\* such entry
FirstUrl(urls, packagetype) ==
    IF urls = <<>> THEN ""
    ELSE IF Head(urls).packagetype = packagetype THEN Head(urls).url
    ELSE FirstUrl(Tail(urls), packagetype)

\* get_package_info, the download URL: the first wheel's, else the first
\* source distribution's
DownloadUrl(urls) ==
    IF FirstUrl(urls, "bdist_wheel") # "" THEN FirstUrl(urls, "bdist_wheel")
    ELSE FirstUrl(urls, "sdist")

\* the Package get_package_info builds: the name is the requested name
MkPackage(dep, deps, url) ==
    [name |-> dep.name, version |-> RequestedVersion(dep.version_spec),
     dependencies |-> deps, download_url |-> url]

Found(pkg) == [status |-> "ok", pkg |-> pkg]

\* a get_package_info that returns the package whatever its download URL is
GetPackageInfoAnyUrl(dep, deps, urls) ==
    Found(MkPackage(dep, deps, DownloadUrl(urls)))

\* get_package_info on a successful response with a version: the package, or
\* PackageNotFound when the "urls" array gives no download URL
GetPackageInfo(dep, deps, urls) ==
    IF DownloadUrl(urls) = "" THEN Failure("PackageNotFound")
    ELSE Found(MkPackage(dep, deps, DownloadUrl(urls)))

RECURSIVE SumLen(_, _)
SumLen(idx, ks) ==
    IF ks = {} THEN 0
    ELSE LET k == CHOOSE x \in ks : TRUE
         IN  (IF idx[k].status = "ok" THEN Len(idx[k].pkg.dependencies) ELSE 0)
             + SumLen(idx, ks \ {k})

EdgesUsed(idx) == SumLen(idx, DepKinds)

\* the answers the index can give to a query it has not been asked before
Answers(idx, dep) ==
    {Failure(e) : e \in FetchErrors}
    \cup {GetPackageInfo(dep, deps, urls) :
            deps \in SeqsUpTo(DepKinds, MaxEdges - EdgesUsed(idx)),
            urls \in UrlArrays}

RECURSIVE Reveal(_, _)
\* every way the index can answer the queries ks it was not asked before
Reveal(idx, ks) ==
    IF ks = {} THEN {idx}
    ELSE LET k == CHOOSE x \in ks : TRUE
         IN  UNION {Reveal([idx EXCEPT ![k] = a], ks \ {k}) : a \in Answers(idx, k)}

Unasked(idx, deps) == {d \in Range(deps) : idx[d].status = "unknown"}

-----------------------------------------------------------------------------
(* Resolver *)

\* format!("{}@{}", pkg.name, pkg.version)
PkgKey(pkg) == pkg.name \o "@" \o pkg.version

OkResult(plan) == [ok |-> TRUE, err |-> "", plan |-> plan]

ErrResult(e) == [ok |-> FALSE, err |-> e, plan |-> <<>>]

NoResult == [ok |-> FALSE, err |-> "pending", plan |-> <<>>]

\* TryJoinAll that drops the fetches that failed
TryJoinAllSkipFailed(idx, deps) ==
    LET good == SelectSeq(deps, LAMBDA d : idx[d].status = "ok")
    IN  {[ok |-> TRUE, err |-> "", pkgs |-> [i \in 1..Len(good) |-> idx[good[i]].pkg]]}

\* futures::future::try_join_all over fetch_package_metadata: the packages
\* in the order of deps, or the error of a fetch that failed
TryJoinAll(idx, deps) ==
    LET failed == {i \in 1..Len(deps) : idx[deps[i]].status = "err"}
    IN  IF failed = {}
        THEN {[ok |-> TRUE, err |-> "", pkgs |-> [i \in 1..Len(deps) |-> idx[deps[i]].pkg]]}
        ELSE {[ok |-> FALSE, err |-> idx[deps[i]].err, pkgs |-> <<>>] : i \in failed}

EmptyGraph == [nodes |-> <<>>, edges |-> <<>>]

\* Graph::add_node: the new node gets the next node id
AddNode(g, label) == [g EXCEPT !.nodes = Append(@, label)]

\* Graph::add_edge
AddEdge(g, from, to) == [g EXCEPT !.edges = Append(@, <<from, to>>)]

\* the state the graph-building loops of resolve work on
BuildState(g, nm, ap, tp) ==
    [graph |-> g, node_map |-> nm, all_packages |-> ap, to_process |-> tp]

RECURSIVE AddRootPackages(_, _)
\* resolve, "Add root packages": one new node per fetched direct package
AddRootPackages(st, pkgs) ==
    IF pkgs = <<>> THEN st
    ELSE LET pkg == Head(pkgs)
             g2  == AddNode(st.graph, PkgKey(pkg))
         IN  AddRootPackages(
                 BuildState(g2,
                            MapInsert(st.node_map, PkgKey(pkg), Len(g2.nodes)),
                            MapInsert(st.all_packages, PkgKey(pkg), pkg),
                            st.to_process),
                 Tail(pkgs))

\* AddDepPackage without the push of a newly discovered package
AddDepPackageNoPush(st, pkg_key, dep_pkg) ==
    LET dep_key == PkgKey(dep_pkg)
        isNew   == dep_key \notin DOMAIN st.node_map
        g2      == IF isNew THEN AddNode(st.graph, dep_key) ELSE st.graph
        nm2     == IF isNew THEN MapInsert(st.node_map, dep_key, Len(g2.nodes))
                   ELSE st.node_map
        ap2     == IF isNew THEN MapInsert(st.all_packages, dep_key, dep_pkg)
                   ELSE st.all_packages
        g3      == IF pkg_key \in DOMAIN nm2 /\ dep_key \in DOMAIN nm2
                   THEN AddEdge(g2, nm2[pkg_key], nm2[dep_key])
                   ELSE g2
    IN  BuildState(g3, nm2, ap2, st.to_process)

\* resolve, the body of "for dep_pkg in dep_packages": a node and a worklist
\* entry if the label is new, then the edge from the package to it
AddDepPackage(st, pkg_key, dep_pkg) ==
    LET dep_key == PkgKey(dep_pkg)
        isNew   == dep_key \notin DOMAIN st.node_map
        g2      == IF isNew THEN AddNode(st.graph, dep_key) ELSE st.graph
        nm2     == IF isNew THEN MapInsert(st.node_map, dep_key, Len(g2.nodes))
                   ELSE st.node_map
        ap2     == IF isNew THEN MapInsert(st.all_packages, dep_key, dep_pkg)
                   ELSE st.all_packages
        tp2     == IF isNew THEN Append(st.to_process, dep_pkg) ELSE st.to_process
        g3      == IF pkg_key \in DOMAIN nm2 /\ dep_key \in DOMAIN nm2
                   THEN AddEdge(g2, nm2[pkg_key], nm2[dep_key])
                   ELSE g2
    IN  BuildState(g3, nm2, ap2, tp2)

RECURSIVE AddDepPackages(_, _, _)
AddDepPackages(st, pkg_key, dep_pkgs) ==
    IF dep_pkgs = <<>> THEN st
    ELSE AddDepPackages(AddDepPackage(st, pkg_key, Head(dep_pkgs)), pkg_key,
                        Tail(dep_pkgs))

-----------------------------------------------------------------------------
(* petgraph::algo::toposort, as resolve calls it *)

\* Graph::neighbors: the targets of the outgoing edges, newest edge first
Neighbors(g, n) ==
    LET out == SelectSeq(Reverse(g.edges), LAMBDA e : e[1] = n)
    IN  [i \in 1..Len(out) |-> out[i][2]]

\* neighbors of the reversed graph: the sources of the incoming edges
NeighborsReversed(g, n) ==
    LET inc == SelectSeq(Reverse(g.edges), LAMBDA e : e[2] = n)
    IN  [i \in 1..Len(inc) |-> inc[i][1]]

RECURSIVE PushSuccs(_, _, _, _)
\* first visit of nx: a self loop is a cycle, undiscovered successors are pushed
PushSuccs(succs, nx, stack, discovered) ==
    IF succs = <<>> THEN [cycle |-> FALSE, stack |-> stack]
    ELSE IF Head(succs) = nx THEN [cycle |-> TRUE, stack |-> stack]
    ELSE PushSuccs(Tail(succs), nx,
                   IF Head(succs) \in discovered THEN stack
                   ELSE Append(stack, Head(succs)),
                   discovered)

RECURSIVE Visit(_, _)
\* the "while let Some(&nx) = dfs.stack.last()" loop of toposort
Visit(g, st) ==
    IF st.cycle \/ st.stack = <<>> THEN st
    ELSE LET nx == st.stack[Len(st.stack)]
         IN  IF nx \notin st.discovered
             THEN LET d2 == st.discovered \cup {nx}
                      r  == PushSuccs(Neighbors(g, nx), nx, st.stack, d2)
                  IN  Visit(g, [st EXCEPT !.discovered = d2, !.stack = r.stack,
                                          !.cycle = r.cycle])
             ELSE Visit(g, [st EXCEPT
                              !.stack = SubSeq(@, 1, Len(@) - 1),
                              !.finished = @ \cup {nx},
                              !.finish_stack = IF nx \in st.finished THEN @
                                               ELSE Append(@, nx)])

RECURSIVE FinishOrder(_, _, _)
\* "for i in g.node_identifiers().rev()": a depth-first search from every
\* node not yet discovered, highest node id first
FinishOrder(g, i, st) ==
    IF i = 0 \/ st.cycle THEN st
    ELSE IF i \in st.discovered THEN FinishOrder(g, i - 1, st)
    ELSE FinishOrder(g, i - 1, Visit(g, [st EXCEPT !.stack = Append(@, i)]))

RECURSIVE ReversedDfs(_, _, _, _)
\* Dfs::next over Reversed(g) until the stack is empty: the nodes it yields
ReversedDfs(g, stack, discovered, count) ==
    IF stack = <<>> THEN [discovered |-> discovered, count |-> count]
    ELSE LET node == stack[Len(stack)]
             rest == SubSeq(stack, 1, Len(stack) - 1)
         IN  IF node \in discovered
             THEN ReversedDfs(g, rest, discovered, count)
             ELSE LET d2   == discovered \cup {node}
                      preds == SelectSeq(NeighborsReversed(g, node),
                                         LAMBDA m : m \notin d2)
                  IN  ReversedDfs(g, rest \o preds, d2, count + 1)

RECURSIVE HasBackPath(_, _, _)
\* the second pass of toposort: a cycle is reported when the reversed search
\* from a node of the finish order yields a second node
HasBackPath(g, order, discovered) ==
    IF order = <<>> THEN FALSE
    ELSE LET r == ReversedDfs(g, <<Head(order)>>, discovered, 0)
         IN  r.count >= 2 \/ HasBackPath(g, Tail(order), r.discovered)

\* Toposort without its second pass: only a self loop is reported
ToposortNoSecondPass(g) ==
    LET st == FinishOrder(g, Len(g.nodes),
                          [stack |-> <<>>, discovered |-> {}, finished |-> {},
                           finish_stack |-> <<>>, cycle |-> FALSE])
    IN  IF st.cycle
        THEN [ok |-> FALSE, order |-> <<>>]
        ELSE [ok |-> TRUE, order |-> Reverse(st.finish_stack)]

\* toposort(&graph, None): Ok(order) or Err(Cycle)
Toposort(g) ==
    LET st == FinishOrder(g, Len(g.nodes),
                          [stack |-> <<>>, discovered |-> {}, finished |-> {},
                           finish_stack |-> <<>>, cycle |-> FALSE])
        order == Reverse(st.finish_stack)
    IN  IF st.cycle \/ HasBackPath(g, order, {})
        THEN [ok |-> FALSE, order |-> <<>>]
        ELSE [ok |-> TRUE, order |-> order]

\* InstallOrder without the reversal
InstallOrderNotReversed(sorted) == sorted

\* resolve, "for node in sorted.iter().rev()": the install order
InstallOrder(sorted) == Reverse(sorted)

\* resolve, the result loop: the package stored for each node's label
PlanOf(g, ap, sorted) ==
    LET ord  == InstallOrder(sorted)
        kept == SelectSeq(ord, LAMBDA n : g.nodes[n] \in DOMAIN ap)
    IN  [i \in 1..Len(kept) |-> ap[g.nodes[kept[i]]]]

ResolverInit ==
    /\ dependencies \in SeqsUpTo(DepKinds, MaxDirect)
    /\ index = [k \in DepKinds |-> Unknown]
    /\ issued = {}
    /\ rpc = "start"
    /\ graph = EmptyGraph
    /\ node_map = EmptyMap
    /\ all_packages = EmptyMap
    /\ to_process = <<>>
    /\ processed = {}
    /\ resolve_result = NoResult

\* resolve up to the worklist loop: the empty input, the concurrent fetch of
\* the direct dependencies, the root nodes and the initial worklist
ResolveStart ==
    /\ rpc = "start"
    /\ IF dependencies = <<>>
       THEN /\ resolve_result' = OkResult(<<>>)
            /\ rpc' = "done"
            /\ UNCHANGED <<index, issued, graph, node_map, all_packages,
                           to_process, processed>>
       ELSE \E idx \in Reveal(index, Unasked(index, dependencies)) :
            \E r \in TryJoinAll(idx, dependencies) :
               /\ index' = idx
               /\ issued' = issued \cup Range(dependencies)
               /\ IF r.ok
                  THEN LET st == AddRootPackages(
                                     BuildState(EmptyGraph, EmptyMap, EmptyMap, <<>>),
                                     r.pkgs)
                       IN  /\ graph' = st.graph
                           /\ node_map' = st.node_map
                           /\ all_packages' = st.all_packages
                           /\ to_process' = r.pkgs
                           /\ processed' = {}
                           /\ rpc' = "expand"
                           /\ UNCHANGED resolve_result
                  ELSE /\ resolve_result' = ErrResult(r.err)
                       /\ rpc' = "done"
                       /\ UNCHANGED <<graph, node_map, all_packages, to_process,
                                      processed>>
    /\ UNCHANGED <<dependencies, cacheVars, registryVars, installerVars, fetchVars, callVars, parseVars, skipped, scenario>>

\* a worklist loop that expands every package it pops
ProcessedContainsNothing(done, pkg_key) == FALSE

\* resolve, "if processed.contains(&pkg_key) { continue; }"
ProcessedContains(done, pkg_key) == pkg_key \in done

\* one iteration of "while let Some(pkg) = to_process.pop()"
ResolveExpand ==
    /\ rpc = "expand"
    /\ to_process # <<>>
    /\ LET pkg     == to_process[Len(to_process)]
           rest    == SubSeq(to_process, 1, Len(to_process) - 1)
           pkg_key == PkgKey(pkg)
       IN  IF ProcessedContains(processed, pkg_key)
           THEN /\ to_process' = rest
                /\ UNCHANGED <<index, issued, rpc, graph, node_map, all_packages,
                               processed, resolve_result>>
           ELSE IF pkg.dependencies = <<>>
           THEN /\ to_process' = rest
                /\ processed' = processed \cup {pkg_key}
                /\ UNCHANGED <<index, issued, rpc, graph, node_map, all_packages,
                               resolve_result>>
           ELSE \E idx \in Reveal(index, Unasked(index, pkg.dependencies)) :
                \E r \in TryJoinAll(idx, pkg.dependencies) :
                   /\ index' = idx
                   /\ issued' = issued \cup Range(pkg.dependencies)
                   /\ processed' = processed \cup {pkg_key}
                   /\ IF r.ok
                      THEN LET st == AddDepPackages(
                                         BuildState(graph, node_map, all_packages, rest),
                                         pkg_key, r.pkgs)
                           IN  /\ graph' = st.graph
                               /\ node_map' = st.node_map
                               /\ all_packages' = st.all_packages
                               /\ to_process' = st.to_process
                               /\ UNCHANGED <<rpc, resolve_result>>
                      ELSE /\ resolve_result' = ErrResult(r.err)
                           /\ rpc' = "done"
                           /\ to_process' = rest
                           /\ UNCHANGED <<graph, node_map, all_packages>>
    /\ UNCHANGED <<dependencies, cacheVars, registryVars, installerVars, fetchVars, callVars, parseVars, skipped, scenario>>

\* resolve after the worklist loop: the topological sort and the result list
ResolveSort ==
    /\ rpc = "expand"
    /\ to_process = <<>>
    /\ LET sorted == Toposort(graph)
       IN  resolve_result' =
               IF sorted.ok
               THEN OkResult(PlanOf(graph, all_packages, sorted.order))
               ELSE ErrResult("ResolutionFailed")
    /\ rpc' = "done"
    /\ UNCHANGED <<dependencies, index, issued, graph, node_map, all_packages,
                   to_process, processed>>
    /\ UNCHANGED <<cacheVars, registryVars, installerVars, fetchVars, callVars, parseVars, skipped, scenario>>

ResolverNext == ResolveStart \/ ResolveExpand \/ ResolveSort

-----------------------------------------------------------------------------
(* Properties of the resolver *)

ResolveReturnedOk == rpc = "done" /\ resolve_result.ok

Plan == resolve_result.plan

PlanKeys == {PkgKey(Plan[i]) : i \in 1..Len(Plan)}

RECURSIVE ReachableQueries(_)
\* the queries reachable from a set of queries through the dependencies of
\* the packages the index answered them with
ReachableQueries(ks) ==
    LET more == ks \cup UNION {Range(index[k].pkg.dependencies) :
                                 k \in {x \in ks : index[x].status = "ok"}}
    IN  IF more = ks THEN ks ELSE ReachableQueries(more)

Reachable == ReachableQueries(Range(dependencies))

ReachableFound == {k \in Reachable : index[k].status = "ok"}

\* the dependency relation between the (name, version) pairs reachable
DependsOn ==
    UNION {{<<PkgKey(index[k].pkg), PkgKey(index[d].pkg)>> :
              d \in {x \in Range(index[k].pkg.dependencies) : index[x].status = "ok"}} :
           k \in ReachableFound}

RECURSIVE PathsFrom(_, _)
\* the pairs reachable from the pairs in front by one or more DependsOn steps
PathsFrom(front, seen) ==
    LET next == {e[2] : e \in {x \in DependsOn : x[1] \in front}}
    IN  IF next \subseteq seen THEN seen ELSE PathsFrom(next \ seen, seen \cup next)

HasCycle == \E e \in DependsOn : e[1] \in PathsFrom({e[1]}, {})

FailedFetches == {k \in issued : index[k].status = "err"}

\* C1: in a plan that resolve returns, every declared dependency of every
\* package resolved to a package at a strictly lower position of the plan.
C1_DependenciesFirst ==
    ResolveReturnedOk =>
        \A i \in 1..Len(Plan) :
            \A n \in 1..Len(Plan[i].dependencies) :
                LET d == Plan[i].dependencies[n]
                IN  /\ index[d].status = "ok"
                    /\ \E j \in 1..(i - 1) : PkgKey(Plan[j]) = PkgKey(index[d].pkg)

\* a plan of three packages in which two packages share a dependency
C1_Witness ==
    /\ ResolveReturnedOk
    /\ \E i, j \in 1..Len(Plan) :
          /\ i # j
          /\ PkgKey(Plan[i]) # PkgKey(Plan[j])
          /\ Range(Plan[i].dependencies) \cap Range(Plan[j].dependencies) # {}

\* C2: a plan that resolve returns holds each (name, version) pair at most
\* once.
C2_NoDuplicates ==
    ResolveReturnedOk =>
        \A i, j \in 1..Len(Plan) : i # j => PkgKey(Plan[i]) # PkgKey(Plan[j])

\* C3 as stated: when the reachable packages contain a dependency cycle,
\* resolve returns ResolutionFailed.
C3_CycleIsResolutionFailed ==
    (rpc = "done" /\ HasCycle) =>
        (~resolve_result.ok /\ resolve_result.err = "ResolutionFailed")

\* C3, amended: when the reachable packages contain a dependency cycle, resolve
\* returns an error and no plan; the error is ResolutionFailed when no
\* metadata fetch of the resolve failed, and the error of a failed fetch
\* otherwise.
C3_CycleIsError ==
    (rpc = "done" /\ HasCycle) =>
        /\ ~resolve_result.ok
        /\ resolve_result.plan = <<>>
        /\ FailedFetches = {} => resolve_result.err = "ResolutionFailed"
        /\ FailedFetches # {} =>
               resolve_result.err \in {index[k].err : k \in FailedFetches}

\* a cycle through two different names, every fetch successful
C3_Witness ==
    /\ rpc = "done"
    /\ HasCycle
    /\ FailedFetches = {}
    /\ \E e \in DependsOn : e[1] # e[2]
    /\ resolve_result.err = "ResolutionFailed"

\* C4: when a metadata fetch issued during resolve failed, resolve returns
\* the error of a failed fetch and no plan.
C4_FetchFailureAborts ==
    (rpc = "done" /\ FailedFetches # {}) =>
        /\ ~resolve_result.ok
        /\ resolve_result.err \in {index[k].err : k \in FailedFetches}
        /\ resolve_result.plan = <<>>

\* a fetch that failed during the expansion of a fetched package
C4_Witness ==
    /\ rpc = "done"
    /\ processed # {}
    /\ FailedFetches # {}
    /\ FailedFetches \cap Range(dependencies) = {}

\* C5: the (name, version) pairs of a plan that resolve returns are exactly the
\* pairs reachable from the direct dependencies.
C5_PlanIsClosure ==
    ResolveReturnedOk =>
        /\ Reachable = ReachableFound
        /\ PlanKeys = {PkgKey(index[k].pkg) : k \in Reachable}

\* a plan with a package that no direct dependency resolved to
C5_Witness ==
    /\ ResolveReturnedOk
    /\ PlanKeys \ {PkgKey(index[k].pkg) : k \in Range(dependencies)} # {}
    /\ Cardinality(PlanKeys) >= 3

\* the (name, version) pairs the index can answer with
IndexPairs == {k.name \o "@" \o RequestedVersion(k.version_spec) : k \in DepKinds}

\* the (name, version) pairs reachable from the direct dependencies
ReachablePairs == {PkgKey(index[k].pkg) : k \in ReachableFound}

\* the pushes the worklist loop can still make, plus the entries it holds
Remaining ==
    Len(to_process) + Cardinality(IndexPairs) - Cardinality(DOMAIN node_map)

\* C34: resolve terminates on every finite index, cyclic or not. Every pair the
\* worklist loop has expanded is a reachable pair, an iteration that pops a
\* pair expanded before changes nothing but the worklist, an iteration that
\* expands a pair adds exactly that pair to the expanded ones, and every
\* iteration lowers a natural number (the entries of the worklist plus the
\* pairs of the index without a node): the worklist empties after at most as
\* many expansions as there are distinct reachable pairs.
C34_ExpandsEachPairOnce ==
    /\ [](processed \subseteq ReachablePairs /\ Remaining >= 0)
    /\ [][(rpc = "expand" /\ to_process # <<>>) =>
            LET pkg     == to_process[Len(to_process)]
                pkg_key == PkgKey(pkg)
            IN  /\ Remaining' < Remaining
                /\ pkg_key \in processed =>
                       /\ to_process' = SubSeq(to_process, 1, Len(to_process) - 1)
                       /\ UNCHANGED <<index, issued, graph, node_map,
                                      all_packages, processed, rpc>>
                /\ pkg_key \notin processed =>
                       /\ processed' = processed \cup {pkg_key}
                       /\ Cardinality(processed') <= Cardinality(ReachablePairs')]_vars

\* the worklist has emptied on a cyclic index with two reachable pairs, each
\* of them expanded
C34_Witness ==
    /\ rpc = "expand"
    /\ to_process = <<>>
    /\ HasCycle
    /\ Cardinality(ReachablePairs) >= 2
    /\ processed = ReachablePairs

-----------------------------------------------------------------------------
(* Multi-level cache *)

CacheKeyList == <<"package:a:1", "package:b:1", "metadata:a:*">>

CacheKeys == Range(CacheKeyList)

\* the byte strings stored
Datas == {"v1", "v2"}

NoData == "none"

\* every key the model hashes: the cache's own, the installer's artifact keys
\* and the resolver's metadata keys
HashedKeyList ==
    CacheKeyList \o <<"package:a:2", "metadata:a:==1", "metadata:b:*">>

KeyIndex(k) == CHOOSE i \in 1..Len(HashedKeyList) : HashedKeyList[i] = k

\* the bits the filter's two hash functions give for a key, under the hash
\* keys the filter was created with
BloomHash(seed, k) ==
    {(KeyIndex(k) + seed) % BloomBits, (KeyIndex(k) + seed + 1) % BloomBits}

\* Bloom::check
BloomCheck(bits, seed, k) == BloomHash(seed, k) \subseteq bits

\* Bloom::set
BloomSet(bits, seed, k) == bits \cup BloomHash(seed, k)

\* Bloom::new_for_fp_rate: no bit set, fresh random hash keys
BloomSeeds == 0..(BloomBits - 1)

LruKeys(m) == {m[i].key : i \in 1..Len(m)}

LruPos(m, k) == CHOOSE i \in 1..Len(m) : m[i].key = k

LruRemove(m, k) == SelectSeq(m, LAMBDA e : e.key # k)

\* LruCache::get: the entry becomes the most recently used one
LruGet(m, k) == Append(LruRemove(m, k), m[LruPos(m, k)])

\* LruCache::put that stores nothing
LruPutNothing(m, k, v) == m

\* LruCache::put: an update or an insert, which at capacity drops the least
\* recently used entry
LruPut(m, k, v) ==
    IF k \in LruKeys(m) THEN Append(LruRemove(m, k), [key |-> k, data |-> v])
    ELSE IF Len(m) >= MemoryCacheEntries
    THEN Append(Tail(m), [key |-> k, data |-> v])
    ELSE Append(m, [key |-> k, data |-> v])

\* Db::insert without the write
DiskInsertLost(d, k, v) == d

\* sled Db::insert
DiskInsert(d, k, v) == MapInsert(d, k, v)

\* the maps a failed Db::clear can leave: any part of the entries removed
PartlyCleared(d) == {[k \in ks |-> d[k]] : ks \in SUBSET (DOMAIN d)}

CacheResult(op, k, ok, data, tier) ==
    [op |-> op, key |-> k, ok |-> ok, data |-> data, tier |-> tier]

NothingCommitted == [k \in CacheKeys |-> NoData]

\* MultiLevelCache::new on a store that has never been written
CacheInit ==
    /\ memory = <<>>
    /\ disk = EmptyMap
    /\ bloom = {}
    /\ bloom_seed \in BloomSeeds
    /\ hits = 0
    /\ misses = 0
    /\ cache_result = CacheResult("new", "", TRUE, NoData, "")
    /\ committed = NothingCommitted
    /\ persisted = NothingCommitted

\* the process ends and a later run calls MultiLevelCache::new on the same
\* cache directory
CacheNew ==
    /\ memory' = <<>>
    /\ bloom' = {}
    /\ bloom_seed' \in BloomSeeds
    /\ hits' = 0
    /\ misses' = 0
    /\ cache_result' = CacheResult("new", "", TRUE, NoData, "")
    /\ committed' = NothingCommitted
    /\ UNCHANGED <<disk, persisted>>
    /\ UNCHANGED <<resolverVars, registryVars, installerVars, fetchVars, callVars, parseVars, skipped, scenario>>

\* MultiLevelCache::get
CacheGet(k) ==
    /\ hits + misses < MaxAccesses
    /\ IF ~BloomCheck(bloom, bloom_seed, k)
       THEN /\ misses' = misses + 1
            /\ cache_result' = CacheResult("get", k, FALSE, NoData, "filter")
            /\ UNCHANGED <<memory, hits>>
       ELSE IF k \in LruKeys(memory)
       THEN /\ memory' = LruGet(memory, k)
            /\ hits' = hits + 1
            /\ cache_result' = CacheResult("get", k, TRUE,
                                           memory[LruPos(memory, k)].data, "memory")
            /\ UNCHANGED misses
       ELSE IF k \in DOMAIN disk
       THEN /\ memory' = LruPut(memory, k, disk[k])
            /\ hits' = hits + 1
            /\ cache_result' = CacheResult("get", k, TRUE, disk[k], "disk")
            /\ UNCHANGED misses
       ELSE /\ misses' = misses + 1
            /\ cache_result' = CacheResult("get", k, FALSE, NoData, "none")
            /\ UNCHANGED <<memory, hits>>
    /\ UNCHANGED <<disk, bloom, bloom_seed, committed, persisted>>
    /\ UNCHANGED <<resolverVars, registryVars, installerVars, fetchVars, callVars, parseVars, skipped, scenario>>

\* MultiLevelCache::put; written is whether the sled insert succeeded
CachePut(k, v, written) ==
    /\ bloom' = BloomSet(bloom, bloom_seed, k)
    /\ memory' = LruPut(memory, k, v)
    /\ IF written
       THEN /\ disk' = DiskInsert(disk, k, v)
            /\ cache_result' = CacheResult("put", k, TRUE, v, "")
            /\ committed' = [committed EXCEPT ![k] = v]
            /\ persisted' = [persisted EXCEPT ![k] = v]
       ELSE /\ disk' = disk
            /\ cache_result' = CacheResult("put", k, FALSE, v, "")
            /\ committed' = [committed EXCEPT ![k] = NoData]
            /\ persisted' = [persisted EXCEPT ![k] = NoData]
    /\ UNCHANGED <<bloom_seed, hits, misses>>
    /\ UNCHANGED <<resolverVars, registryVars, installerVars, fetchVars, callVars, parseVars, skipped, scenario>>

\* MultiLevelCache::clear, what it does to the cache; cleared is whether the
\* sled clear succeeded
Clear(cleared) ==
    /\ memory' = <<>>
    /\ IF cleared
       THEN /\ disk' = EmptyMap
            /\ bloom' = {}
            /\ bloom_seed' \in BloomSeeds
            /\ hits' = 0
            /\ misses' = 0
            /\ cache_result' = CacheResult("clear", "", TRUE, NoData, "")
       ELSE /\ disk' \in PartlyCleared(disk)
            /\ cache_result' = CacheResult("clear", "", FALSE, NoData, "")
            /\ UNCHANGED <<bloom, bloom_seed, hits, misses>>
    /\ committed' = NothingCommitted
    /\ persisted' = NothingCommitted

\* a clear that returns Ok after memory.clear() and resets nothing else
CacheClearUnfinished(cleared) ==
    /\ memory' = <<>>
    /\ cache_result' = CacheResult("clear", "", TRUE, NoData, "")
    /\ committed' = NothingCommitted
    /\ persisted' = NothingCommitted
    /\ UNCHANGED <<disk, bloom, bloom_seed, hits, misses>>
    /\ UNCHANGED <<resolverVars, registryVars, installerVars, fetchVars, callVars, parseVars, skipped, scenario>>

\* MultiLevelCache::clear
CacheClear(cleared) ==
    /\ Clear(cleared)
    /\ UNCHANGED <<resolverVars, registryVars, installerVars, fetchVars, callVars, parseVars, skipped, scenario>>

CacheNext ==
    \/ \E k \in CacheKeys : CacheGet(k)
    \/ \E k \in CacheKeys, v \in Datas, written \in BOOLEAN : CachePut(k, v, written)
    \/ \E cleared \in BOOLEAN : CacheClear(cleared)
    \/ CacheNew

-----------------------------------------------------------------------------
(* Properties of the cache *)

C7_GetReturnsPutOfEarlierRun ==
    (cache_result.op = "get" /\ persisted[cache_result.key] # NoData) =>
        (cache_result.ok /\ cache_result.data = persisted[cache_result.key])

\* C8: every key held in L1 or in L2 is a member of the filter.
C8_NoFalseNegatives ==
    \A k \in CacheKeys :
        (k \in LruKeys(memory) \/ k \in DOMAIN disk) =>
            BloomCheck(bloom, bloom_seed, k)

\* the value L1 holds for a key
LruData(m, k) == m[LruPos(m, k)].data

\* C29: when put(k, v) returns an error because the L2 write failed, the
\* filter and L1 hold k with v, every other key L1 holds has the value it had
\* before, L2 is as it was, and a get(k) called next returns v.
C29_FailedPutKeepsL1 ==
    [][/\ (cache_result'.op = "put" /\ ~cache_result'.ok) =>
              /\ BloomCheck(bloom', bloom_seed', cache_result'.key)
              /\ cache_result'.key \in LruKeys(memory')
              /\ LruData(memory', cache_result'.key) = cache_result'.data
              /\ \A j \in LruKeys(memory') \ {cache_result'.key} :
                     j \in LruKeys(memory) /\ LruData(memory', j) = LruData(memory, j)
              /\ disk' = disk
       /\ (/\ cache_result.op = "put"
           /\ ~cache_result.ok
           /\ cache_result'.op = "get"
           /\ cache_result'.key = cache_result.key) =>
              /\ cache_result'.ok
              /\ cache_result'.data = cache_result.data]_vars

\* get returned from L1 a value that L2 does not hold, beside another key in L1
C29_Witness ==
    /\ cache_result.op = "get"
    /\ cache_result.ok
    /\ cache_result.tier = "memory"
    /\ cache_result.key \notin DOMAIN disk
    /\ Len(memory) = 2

\* no key is both let through by the filter and held by L1 or L2
NothingReadable ==
    \A k \in CacheKeys :
        ~(/\ BloomCheck(bloom, bloom_seed, k)
          /\ (k \in LruKeys(memory) \/ k \in DOMAIN disk))

\* C24: when clear returns ok, both counters are 0 and no key is readable;
\* and as long as no put is called, every get returns nothing and no key
\* becomes readable.
C24_ClearEmptiesCache ==
    [][/\ (cache_result'.op = "clear" /\ cache_result'.ok) =>
              /\ hits' = 0
              /\ misses' = 0
              /\ NothingReadable'
       /\ (NothingReadable /\ cache_result'.op # "put") =>
              /\ NothingReadable'
              /\ cache_result'.op = "get" => ~cache_result'.ok]_vars

\* clear has returned ok and left both tiers empty and both counters at 0
C24_Witness ==
    /\ cache_result.op = "clear"
    /\ cache_result.ok
    /\ disk = EmptyMap
    /\ memory = <<>>
    /\ hits = 0
    /\ misses = 0

-----------------------------------------------------------------------------
(* Installation registry *)

PackageNames == {"a", "b"}

PackageVersions == {"1", "2"}

\* the packages register_package is called with
Packages == [name : PackageNames, version : PackageVersions]

\* the version arguments is_package_installed is called with
VersionSpecs == {"*", "==1", "1", "2", ">=1"}

\* LocalPackageManager::install_dir
InstallDir == ".cobra_packages"

\* self.install_dir.join(&package.name)
InstallPath(name) == InstallDir \o "/" \o name

\* str::starts_with
StartsWith(s, prefix) ==
    Len(s) >= Len(prefix) /\ SubSeq(s, 1, Len(prefix)) = prefix

\* LocalPackageManager::version_satisfies
VersionSatisfies(installed, required) ==
    IF required = "*" THEN TRUE
    ELSE IF StartsWith(required, "==")
    THEN installed = SubSeq(required, 3, Len(required))
    ELSE installed = required

\* Path::exists answering true for every path
PathExistsAlways(paths, path) == TRUE

\* Path::exists
PathExists(paths, path) == path \in paths

\* the registry file with a well-formed document of the given packages
RegistryFile(pkgs) == [exists |-> TRUE, valid |-> TRUE, packages |-> pkgs]

NoRegistryFile == [exists |-> FALSE, valid |-> FALSE, packages |-> EmptyMap]

\* a registry file cut short by a write that failed
BrokenRegistryFile == [exists |-> TRUE, valid |-> FALSE, packages |-> EmptyMap]

\* load_registry: Ok(registry) or the Config error of a file that does not parse
LoadRegistry(file) ==
    IF ~file.exists THEN [ok |-> TRUE, packages |-> EmptyMap]
    ELSE IF ~file.valid THEN [ok |-> FALSE, packages |-> EmptyMap]
    ELSE [ok |-> TRUE, packages |-> file.packages]

\* the files fs::write can leave: the new document, or after an error the old
\* file or a file cut short
SaveRegistry(file, pkgs, written) ==
    IF written THEN {RegistryFile(pkgs)} ELSE {file, BrokenRegistryFile}

\* HashMap::remove that removes nothing
MapKeepAll(m, k) == m

\* HashMap::remove
MapRemove(m, k) == [x \in (DOMAIN m) \ {k} |-> m[x]]

InstalledPackage(package, now) ==
    [name |-> package.name, version |-> package.version,
     install_path |-> InstallPath(package.name), installed_at |-> now]

PmResult(op, name, spec, ret, before) ==
    [op |-> op, name |-> name, spec |-> spec, ret |-> ret, before |-> before]

RegistryInit ==
    /\ registry_file = NoRegistryFile
    /\ fs_paths = {}
    /\ clock = 0
    /\ pm_result = PmResult("new", "", "", "ok", NoRegistryFile)

\* LocalPackageManager::is_package_installed
IsPackageInstalled(name, version, written) ==
    LET loaded == LoadRegistry(registry_file)
        registry == loaded.packages
    IN  /\ IF ~loaded.ok
           THEN /\ pm_result' = PmResult("is_installed", name, version, "err",
                                         registry_file)
                /\ UNCHANGED registry_file
           ELSE IF name \in DOMAIN registry
                   /\ VersionSatisfies(registry[name].version, version)
           THEN IF PathExists(fs_paths, registry[name].install_path)
                THEN /\ pm_result' = PmResult("is_installed", name, version, "true",
                                              registry_file)
                     /\ UNCHANGED registry_file
                ELSE /\ registry_file' \in
                            SaveRegistry(registry_file, MapRemove(registry, name),
                                         written)
                     /\ pm_result' = PmResult("is_installed", name, version,
                                              IF written THEN "false" ELSE "err",
                                              registry_file)
           ELSE /\ pm_result' = PmResult("is_installed", name, version, "false",
                                         registry_file)
                /\ UNCHANGED registry_file
        /\ UNCHANGED <<fs_paths, clock>>
        /\ UNCHANGED <<resolverVars, cacheVars, installerVars, fetchVars, callVars, parseVars, skipped, scenario>>

\* LocalPackageManager::register_package
RegisterPackage(package, written) ==
    LET loaded == LoadRegistry(registry_file)
    IN  /\ IF ~loaded.ok
           THEN /\ pm_result' = PmResult("register", package.name, package.version,
                                         "err", registry_file)
                /\ UNCHANGED registry_file
           ELSE /\ registry_file' \in
                       SaveRegistry(registry_file,
                                    MapInsert(loaded.packages, package.name,
                                              InstalledPackage(package, clock)),
                                    written)
                /\ pm_result' = PmResult("register", package.name, package.version,
                                         IF written THEN "ok" ELSE "err",
                                         registry_file)
        /\ UNCHANGED <<fs_paths, clock>>
        /\ UNCHANGED <<resolverVars, cacheVars, installerVars, fetchVars, callVars, parseVars, skipped, scenario>>

\* LocalPackageManager::unregister_package
UnregisterPackage(name, written) ==
    LET loaded == LoadRegistry(registry_file)
        removed == name \in DOMAIN loaded.packages
    IN  /\ IF ~loaded.ok
           THEN /\ pm_result' = PmResult("unregister", name, "", "err", registry_file)
                /\ UNCHANGED registry_file
           ELSE IF removed
           THEN /\ registry_file' \in
                       SaveRegistry(registry_file, MapRemove(loaded.packages, name),
                                    written)
                /\ pm_result' = PmResult("unregister", name, "",
                                         IF written THEN "true" ELSE "err",
                                         registry_file)
           ELSE /\ pm_result' = PmResult("unregister", name, "", "false",
                                         registry_file)
                /\ UNCHANGED registry_file
        /\ UNCHANGED <<fs_paths, clock>>
        /\ UNCHANGED <<resolverVars, cacheVars, installerVars, fetchVars, callVars, parseVars, skipped, scenario>>

\* an archive is extracted into the install directory, or a directory is
\* made there from outside
CreatePath(name) ==
    /\ InstallPath(name) \notin fs_paths
    /\ fs_paths' = fs_paths \cup {InstallPath(name)}
    /\ pm_result' = PmResult("create_path", name, "", "ok", registry_file)
    /\ UNCHANGED <<registry_file, clock>>
    /\ UNCHANGED <<resolverVars, cacheVars, installerVars, fetchVars, callVars, parseVars, skipped, scenario>>

\* a package directory is removed out of band
RemovePath(name) ==
    /\ InstallPath(name) \in fs_paths
    /\ fs_paths' = fs_paths \ {InstallPath(name)}
    /\ pm_result' = PmResult("remove_path", name, "", "ok", registry_file)
    /\ UNCHANGED <<registry_file, clock>>
    /\ UNCHANGED <<resolverVars, cacheVars, installerVars, fetchVars, callVars, parseVars, skipped, scenario>>

\* time passes
Tick ==
    /\ clock < MaxClock
    /\ clock' = clock + 1
    /\ pm_result' = PmResult("tick", "", "", "ok", registry_file)
    /\ UNCHANGED <<registry_file, fs_paths>>
    /\ UNCHANGED <<resolverVars, cacheVars, installerVars, fetchVars, callVars, parseVars, skipped, scenario>>

RegistryNext ==
    \/ \E name \in PackageNames, version \in VersionSpecs, written \in BOOLEAN :
          IsPackageInstalled(name, version, written)
    \/ \E package \in Packages, written \in BOOLEAN : RegisterPackage(package, written)
    \/ \E name \in PackageNames, written \in BOOLEAN : UnregisterPackage(name, written)
    \/ \E name \in PackageNames : CreatePath(name)
    \/ \E name \in PackageNames : RemovePath(name)
    \/ Tick

-----------------------------------------------------------------------------
(* Properties of the registry *)

\* the entry is_package_installed found for the name it was called with
FoundEntry == pm_result.before.packages[pm_result.name]

EntryFound ==
    /\ pm_result.before.exists
    /\ pm_result.before.valid
    /\ pm_result.name \in DOMAIN pm_result.before.packages

\* the registry's spec satisfaction as the specification states it
SpecSatisfied(installed, spec) ==
    \/ spec = "*"
    \/ /\ StartsWith(spec, "==")
       /\ spec = "==" \o installed
    \/ /\ spec # "*"
       /\ ~StartsWith(spec, "==")
       /\ spec = installed

\* C9: is_installed returns true exactly when the registry has an entry for
\* the name, the entry's version satisfies the spec and the entry's
\* install_path exists.
C9_IsInstalledIff ==
    pm_result.op = "is_installed" =>
        (pm_result.ret = "true" <=>
            /\ EntryFound
            /\ SpecSatisfied(FoundEntry.version, pm_result.spec)
            /\ FoundEntry.install_path \in fs_paths)

\* is_installed returned true for a pinned spec
C9_Witness ==
    /\ pm_result.op = "is_installed"
    /\ pm_result.ret = "true"
    /\ pm_result.spec = "==1"
    /\ FoundEntry.install_path \in fs_paths

\* C10 as stated: when is_installed finds an entry and returns false, the
\* entry has been removed from the persisted registry.
C10_FalseRemovesEntry ==
    (pm_result.op = "is_installed" /\ pm_result.ret = "false" /\ EntryFound) =>
        /\ registry_file.exists
        /\ registry_file.valid
        /\ pm_result.name \notin DOMAIN registry_file.packages

\* C10, amended: when is_installed finds an entry and returns false, the entry
\* has been removed from the persisted registry if its version satisfies the
\* spec (so its install_path is missing), and the registry is left as it was
\* if its version does not satisfy the spec.
C10_FalseRemovesVanishedEntry ==
    (pm_result.op = "is_installed" /\ pm_result.ret = "false" /\ EntryFound) =>
        IF SpecSatisfied(FoundEntry.version, pm_result.spec)
        THEN /\ FoundEntry.install_path \notin fs_paths
             /\ registry_file = RegistryFile(
                    [n \in (DOMAIN pm_result.before.packages) \ {pm_result.name}
                       |-> pm_result.before.packages[n]])
        ELSE registry_file = pm_result.before

\* is_installed removed the entry of a package whose directory is gone, and
\* kept the entry of another package
C10_Witness ==
    /\ pm_result.op = "is_installed"
    /\ pm_result.ret = "false"
    /\ EntryFound
    /\ SpecSatisfied(FoundEntry.version, pm_result.spec)
    /\ pm_result.name \notin DOMAIN registry_file.packages
    /\ DOMAIN registry_file.packages # {}

\* C11: when register(pkg) returned ok and the next registry call is
\* unregister(pkg.name), which completes, then unregister returns true and the
\* persisted registry holds no entry for the name; and is_installed(name, "*")
\* called next returns false.
C11_RegisterThenUnregister ==
    [][/\ (/\ pm_result.op = "register"
           /\ pm_result.ret = "ok"
           /\ pm_result'.op = "unregister"
           /\ pm_result'.name = pm_result.name
           /\ pm_result'.ret # "err")
          => /\ pm_result'.ret = "true"
             /\ LoadRegistry(registry_file').ok
             /\ pm_result.name \notin DOMAIN LoadRegistry(registry_file').packages
       /\ (/\ pm_result.op = "unregister"
           /\ pm_result.ret = "true"
           /\ pm_result'.op = "is_installed"
           /\ pm_result'.name = pm_result.name
           /\ pm_result'.spec = "*")
          => pm_result'.ret = "false"]_vars

\* unregister removed a registered entry and returned true, and another
\* package's entry stayed
C11_Witness ==
    /\ pm_result.op = "unregister"
    /\ pm_result.ret = "true"
    /\ pm_result.name \in DOMAIN pm_result.before.packages
    /\ pm_result.name \notin DOMAIN registry_file.packages
    /\ DOMAIN registry_file.packages # {}

\* the registry register_package loaded
RegistryBefore == LoadRegistry(pm_result.before).packages

\* C26: after register(pkg) returned ok the persisted registry has an entry
\* under pkg.name with version pkg.version and install_path
\* <install_dir>/<pkg.name>, whatever entry the name had before, and its
\* entries of all other names are the ones it had before.
C26_RegisterIsUpsert ==
    (pm_result.op = "register" /\ pm_result.ret = "ok") =>
        /\ registry_file.exists
        /\ registry_file.valid
        /\ DOMAIN registry_file.packages = DOMAIN RegistryBefore \cup {pm_result.name}
        /\ registry_file.packages[pm_result.name].name = pm_result.name
        /\ registry_file.packages[pm_result.name].version = pm_result.spec
        /\ registry_file.packages[pm_result.name].install_path
               = InstallDir \o "/" \o pm_result.name
        /\ \A n \in DOMAIN RegistryBefore :
               n # pm_result.name => registry_file.packages[n] = RegistryBefore[n]

\* register replaced an entry of another version and kept another name's entry
C26_Witness ==
    /\ pm_result.op = "register"
    /\ pm_result.ret = "ok"
    /\ pm_result.name \in DOMAIN RegistryBefore
    /\ RegistryBefore[pm_result.name].version # pm_result.spec
    /\ DOMAIN RegistryBefore # {pm_result.name}

-----------------------------------------------------------------------------
(* Installer *)

\* the packages a plan is made of: two versions of one name and another name
PlanPackages == {[name |-> "a", version |-> "1"],
                 [name |-> "a", version |-> "2"],
                 [name |-> "b", version |-> "1"]}

\* what an archive holds: files under a directory named as the package, files
\* under another directory only, or bytes that are no zip archive
ArchiveKinds == {"named", "other", "corrupt"}

UnknownArchive == "unknown"

\* format!("package:{}:{}", package.name, package.version)
ArtifactKey(package) == "package:" \o package.name \o ":" \o package.version

\* the bytes package.download_url serves
ArtifactBytes(package) == "whl:" \o package.name \o ":" \o package.version

NoBytes == ""

BytesOwner(bytes) == CHOOSE p \in PlanPackages : ArtifactBytes(p) = bytes

\* the directories under the install directory the archive's entries are
\* written into: site_packages.join(file.name())
ZipDirs(bytes, kind) ==
    IF kind = "named" THEN {InstallPath(BytesOwner(bytes).name)}
    ELSE {InstallPath(BytesOwner(bytes).name \o "_lib")}

\* std::env::temp_dir().join(format!("{}.whl", package.name))
TempPath(package) == package.name

\* is_package_installed as install_parallel calls it: what it returns and the
\* registry file it leaves
PmIsInstalled(file, paths, name, version) ==
    LET loaded == LoadRegistry(file)
        registry == loaded.packages
    IN  IF ~loaded.ok THEN [ret |-> "err", file |-> file]
        ELSE IF name \in DOMAIN registry
                /\ VersionSatisfies(registry[name].version, version)
        THEN IF PathExists(paths, registry[name].install_path)
             THEN [ret |-> "true", file |-> file]
             ELSE [ret |-> "false",
                   file |-> RegistryFile(MapRemove(registry, name))]
        ELSE [ret |-> "false", file |-> file]

\* the loop of install_parallel that sorts the packages into installed ones,
\* which are skipped, and packages_to_install
RECURSIVE Classify(_, _, _, _)
Classify(file, paths, pkgs, todo) ==
    IF pkgs = <<>> THEN [ok |-> TRUE, file |-> file, todo |-> todo]
    ELSE LET r == PmIsInstalled(file, paths, Head(pkgs).name,
                                Head(pkgs).version)
         IN  IF r.ret = "err" THEN [ok |-> FALSE, file |-> r.file, todo |-> todo]
             ELSE Classify(r.file, paths, Tail(pkgs),
                           IF r.ret = "true" THEN todo
                           ELSE Append(todo, Head(pkgs)))

\* the packages the loop of install_parallel found installed and left out of
\* packages_to_install, each with the registry entry that made it so
Skipped(file, pkgs, todo) ==
    {[pkg |-> p, entry |-> LoadRegistry(file).packages[p.name]] :
        p \in Range(pkgs) \ Range(todo)}

\* a task as tokio::spawn creates it: waiting for its permit
SpawnedTask(package) ==
    [pkg |-> package, pc |-> "queued", data |-> NoBytes, loaded |-> EmptyMap,
     err |-> "", steps |-> <<>>]

NoCounts == [downloads |-> 0, extractions |-> 0, registers |-> 0]

Finished(t) == t.pc \in {"ok", "err"}

\* Semaphore::acquire lets a task through whatever the permits
PermitAlways(p) == TRUE

\* Semaphore::acquire lets a task through when a permit is free
PermitAvailable(p) == p > 0

NoReturn == "pending"

\* install_parallel returns
Return(res) ==
    /\ install_result' = res
    /\ install_pc' = "idle"

\* a task's future ends with an error and drops its permit
Fail(i, e) ==
    /\ tasks' = [tasks EXCEPT ![i].pc = "err", ![i].err = e]
    /\ permits' = permits + 1

\* a task goes on to its next step
Goto(i, pc, step) ==
    /\ tasks' = [tasks EXCEPT ![i].pc = pc, ![i].steps = Append(@, step)]
    /\ UNCHANGED permits

\* a step's result is dropped as by "let _ =": the task goes on after an error
TryIgnoringError(i, res, pc, step) ==
    /\ tasks' = [tasks EXCEPT ![i].pc = pc,
                              ![i].steps = Append(@, IF res = "ok" THEN step
                                                     ELSE "failed " \o step)]
    /\ UNCHANGED permits

\* the ? after a step of install_single: the task goes on when the step
\* returned Ok and ends with the step's error otherwise
Try(i, res, pc, step) ==
    IF res = "ok" THEN Goto(i, pc, step) ELSE Fail(i, res)

\* a step's result is returned with ?
Propagated(i, res, pc, step) == Try(i, res, pc, step)

\* "let _ =": the step's result is dropped and the task goes on
Dropped(i, res, pc, step) == Goto(i, pc, step)

InstallerInit ==
    /\ packages \in SeqsUpTo(PlanPackages, MaxPlan)
    /\ archive = [p \in PlanPackages |-> UnknownArchive]
    /\ install_pc = "idle"
    /\ tasks = <<>>
    /\ sem_size \in 1..MaxConcurrentInstalls
    /\ disk_writable \in BOOLEAN
    /\ permits = 0
    /\ temp_files = EmptyMap
    /\ install_result = NoReturn
    /\ previous_result = NoReturn
    /\ pth_calls = 0
    /\ counts = NoCounts
    /\ faults = IF disk_writable THEN 0 ELSE 1

\* an is_empty that never answers yes
NeverEmpty(pkgs) == FALSE

\* install_parallel: packages.is_empty()
NothingToInstall(pkgs) == pkgs = <<>>

\* install_parallel up to the spawning of the tasks
InstallParallel ==
    /\ install_pc = "idle"
    /\ previous_result' = install_result
    /\ pth_calls' = 0
    /\ counts' = NoCounts
    /\ IF NothingToInstall(packages)
       THEN /\ Return("ok")
            /\ tasks' = <<>>
            /\ skipped' = {}
            /\ UNCHANGED <<registry_file, fs_paths, permits>>
       ELSE LET c == Classify(registry_file, fs_paths \cup {InstallDir}, packages, <<>>)
            IN  /\ fs_paths' = fs_paths \cup {InstallDir}
                /\ registry_file' = c.file
                /\ skipped' = IF c.ok THEN Skipped(c.file, packages, c.todo) ELSE {}
                /\ IF ~c.ok
                   THEN /\ Return("Config")
                        /\ tasks' = <<>>
                        /\ UNCHANGED permits
                   ELSE IF c.todo = <<>>
                   THEN /\ Return("ok")
                        /\ tasks' = <<>>
                        /\ UNCHANGED permits
                   ELSE /\ tasks' = [i \in 1..Len(c.todo) |-> SpawnedTask(c.todo[i])]
                        /\ permits' = sem_size
                        /\ install_pc' = "running"
                        /\ install_result' = NoReturn
    /\ UNCHANGED <<packages, archive, sem_size, disk_writable, temp_files, faults, clock,
                   pm_result>>
    /\ UNCHANGED <<resolverVars, cacheVars, fetchVars, callVars, parseVars, scenario>>

\* a task that notes download_package's error and goes on to the temp file
DownloadFailedGoesOn(t) ==
    [t EXCEPT !.pc = "write_temp", !.err = "Network", !.steps = Append(@, "miss")]

\* the task's future ends with download_package's error
DownloadFailed(t) ==
    [t EXCEPT !.pc = "err", !.err = "Network", !.steps = Append(@, "miss")]

\* what the spawned task has done once download_package has returned Ok
Downloaded(t, bytes) ==
    [t EXCEPT !.pc = "put", !.data = bytes,
              !.steps = @ \o <<"miss", "download">>]

\* install_single after a miss of the cache: download_package(..).await?;
\* served is whether the registry served the archive, kind is what the
\* archive turns out to hold
DownloadPackage(i, served, kind) ==
    /\ counts' = [counts EXCEPT !.downloads = @ + 1]
    /\ IF served
       THEN /\ archive[tasks[i].pkg] \in {UnknownArchive, kind}
            /\ archive' = [archive EXCEPT ![tasks[i].pkg] = kind]
            /\ faults' = IF kind # "named" /\ archive[tasks[i].pkg] # kind
                         THEN faults + 1 ELSE faults
            /\ tasks' = [tasks EXCEPT
                            ![i] = Downloaded(@, ArtifactBytes(tasks[i].pkg))]
            /\ permits' = permits - 1
       ELSE /\ kind = "named"
            /\ faults' = faults + 1
            /\ tasks' = [tasks EXCEPT ![i] = DownloadFailed(@)]
            /\ UNCHANGED <<archive, permits>>
    /\ faults' <= MaxFaults

\* install_single takes the artifact the cache returned; nothing is
\* downloaded
Hit(i, data) ==
    /\ tasks' = [tasks EXCEPT ![i].pc = "write_temp", ![i].data = data,
                              ![i].steps = Append(@, "hit")]
    /\ permits' = permits - 1
    /\ UNCHANGED <<archive, counts, faults>>

\* the spawned task: sem.acquire().await, then install_single:
\* cache.get(&cache_key) and, when the cache has no artifact, the download
InstallSingle(i, served, kind) ==
    LET k == ArtifactKey(tasks[i].pkg)
    IN  /\ install_pc = "running"
        /\ tasks[i].pc = "queued"
        /\ PermitAvailable(permits)
        /\ hits + misses < MaxAccesses
        /\ IF ~BloomCheck(bloom, bloom_seed, k)
           THEN /\ misses' = misses + 1
                /\ DownloadPackage(i, served, kind)
                /\ UNCHANGED <<memory, hits>>
           ELSE IF k \in LruKeys(memory)
           THEN /\ memory' = LruGet(memory, k)
                /\ hits' = hits + 1
                /\ Hit(i, memory[LruPos(memory, k)].data)
                /\ UNCHANGED misses
           ELSE IF k \in DOMAIN disk
           THEN /\ memory' = LruPut(memory, k, disk[k])
                /\ hits' = hits + 1
                /\ Hit(i, disk[k])
                /\ UNCHANGED misses
           ELSE /\ misses' = misses + 1
                /\ DownloadPackage(i, served, kind)
                /\ UNCHANGED <<memory, hits>>
        /\ UNCHANGED <<disk, bloom, bloom_seed, cache_result, committed, persisted>>
        /\ UNCHANGED <<packages, sem_size, disk_writable, install_pc, temp_files,
                       install_result, previous_result, pth_calls>>
        /\ UNCHANGED <<resolverVars, registryVars, fetchVars, callVars, parseVars, skipped, scenario>>

\* install_single: let _ = cache.put(cache_key, data.clone()).await; the sled
\* insert succeeds when the disk takes writes
CachePutArtifact(i) ==
    LET k == ArtifactKey(tasks[i].pkg)
    IN  /\ install_pc = "running"
        /\ tasks[i].pc = "put"
        /\ bloom' = BloomSet(bloom, bloom_seed, k)
        /\ memory' = LruPut(memory, k, tasks[i].data)
        /\ disk' = IF disk_writable THEN DiskInsert(disk, k, tasks[i].data)
                   ELSE disk
        /\ Dropped(i, IF disk_writable THEN "ok" ELSE "Cache", "write_temp", "put")
        /\ UNCHANGED <<bloom_seed, hits, misses, cache_result, committed, persisted>>
        /\ UNCHANGED <<packages, archive, sem_size, disk_writable, install_pc,
                       temp_files, install_result, previous_result, pth_calls,
                       counts, faults>>
        /\ UNCHANGED <<resolverVars, registryVars, fetchVars, callVars, parseVars, skipped, scenario>>

\* install_single: fs::write(&temp_path, &package_data).await?
WriteTemp(i) ==
    /\ install_pc = "running"
    /\ tasks[i].pc = "write_temp"
    /\ temp_files' = MapInsert(temp_files, TempPath(tasks[i].pkg), tasks[i].data)
    /\ Goto(i, "extract", "write_temp")
    /\ UNCHANGED <<packages, archive, sem_size, disk_writable, install_pc, install_result,
                   previous_result, pth_calls, counts, faults>>
    /\ UNCHANGED <<resolverVars, cacheVars, registryVars, fetchVars, callVars, parseVars, skipped, scenario>>

\* what extract_package_mmap returns for the file it finds at the temp path
ExtractResult(temp, arch, path) ==
    IF path \notin DOMAIN temp THEN "Archive"
    ELSE IF arch[BytesOwner(temp[path])] = "corrupt" THEN "Archive"
    ELSE "ok"

\* install_single: extract_package_mmap(&temp_path, ..).await?
ExtractPackage(i) ==
    LET path == TempPath(tasks[i].pkg)
        res == ExtractResult(temp_files, archive, path)
    IN  /\ install_pc = "running"
        /\ tasks[i].pc = "extract"
        /\ counts' = [counts EXCEPT !.extractions = @ + 1]
        /\ fs_paths' = IF res = "ok"
                       THEN fs_paths \cup {InstallDir}
                                \cup ZipDirs(temp_files[path],
                                             archive[BytesOwner(temp_files[path])])
                       ELSE fs_paths \cup {InstallDir}
        /\ Try(i, res, "remove_temp", "extract")
        /\ UNCHANGED <<registry_file, clock, pm_result>>
        /\ UNCHANGED <<packages, archive, sem_size, disk_writable, install_pc, temp_files,
                       install_result, previous_result, pth_calls, faults>>
        /\ UNCHANGED <<resolverVars, cacheVars, fetchVars, callVars, parseVars, skipped, scenario>>

\* install_single: fs::remove_file(&temp_path).await?
RemoveTemp(i) ==
    LET path == TempPath(tasks[i].pkg)
    IN  /\ install_pc = "running"
        /\ tasks[i].pc = "remove_temp"
        /\ temp_files' = MapRemove(temp_files, path)
        /\ Try(i, IF path \in DOMAIN temp_files THEN "ok" ELSE "Io",
               "register", "remove_temp")
        /\ UNCHANGED <<packages, archive, sem_size, disk_writable, install_pc, install_result,
                       previous_result, pth_calls, counts, faults>>
        /\ UNCHANGED <<resolverVars, cacheVars, registryVars, fetchVars, callVars, parseVars, skipped, scenario>>

\* the wall clock after a reading of it: every reading is later than the one
\* before, up to the latest time of the model
Later(now) == IF now < MaxClock THEN now + 1 ELSE now

\* register_package: let mut registry = self.load_registry().await?, and the
\* insert into the loaded copy of the entry stamped with Utc::now()
RegisterLoad(i) ==
    LET loaded == LoadRegistry(registry_file)
    IN  /\ install_pc = "running"
        /\ tasks[i].pc = "register"
        /\ counts' = [counts EXCEPT !.registers = @ + 1]
        /\ IF loaded.ok
           THEN /\ tasks' = [tasks EXCEPT
                       ![i].pc = "truncate",
                       ![i].loaded = MapInsert(loaded.packages, tasks[i].pkg.name,
                                               InstalledPackage(tasks[i].pkg, clock)),
                       ![i].steps = Append(@, "register")]
                /\ clock' = Later(clock)
                /\ UNCHANGED permits
           ELSE /\ Fail(i, "Config")
                /\ UNCHANGED clock
        /\ UNCHANGED <<registry_file, fs_paths, pm_result>>
        /\ UNCHANGED <<packages, archive, sem_size, disk_writable, install_pc, temp_files,
                       install_result, previous_result, pth_calls, faults>>
        /\ UNCHANGED <<resolverVars, cacheVars, fetchVars, callVars, parseVars, skipped, scenario>>

\* save_registry: fs::write opens the registry file, which empties it
RegisterTruncate(i) ==
    /\ install_pc = "running"
    /\ tasks[i].pc = "truncate"
    /\ registry_file' = BrokenRegistryFile
    /\ tasks' = [tasks EXCEPT ![i].pc = "write"]
    /\ UNCHANGED <<fs_paths, clock, pm_result>>
    /\ UNCHANGED <<packages, archive, sem_size, disk_writable, install_pc, permits, temp_files,
                   install_result, previous_result, pth_calls, counts, faults>>
    /\ UNCHANGED <<resolverVars, cacheVars, fetchVars, callVars, parseVars, skipped, scenario>>

\* save_registry: fs::write writes the document; register_package and the
\* task return Ok
RegisterWrite(i) ==
    /\ install_pc = "running"
    /\ tasks[i].pc = "write"
    /\ registry_file' = RegistryFile(tasks[i].loaded)
    /\ tasks' = [tasks EXCEPT ![i].pc = "ok"]
    /\ permits' = permits + 1
    /\ UNCHANGED <<fs_paths, clock, pm_result>>
    /\ UNCHANGED <<packages, archive, sem_size, disk_writable, install_pc, temp_files,
                   install_result, previous_result, pth_calls, counts, faults>>
    /\ UNCHANGED <<resolverVars, cacheVars, fetchVars, callVars, parseVars, skipped, scenario>>

\* join_all returns as soon as one task has finished
AnyJoined(ts) == \E i \in 1..Len(ts) : Finished(ts[i])

\* join_all has every task's result
AllJoined(ts) == \A i \in 1..Len(ts) : Finished(ts[i])

\* the loop over the results finds no error
NoError(ts) == "ok"

\* the first error of the results, in the order the tasks were spawned
FirstError(ts) ==
    LET failed == {i \in 1..Len(ts) : ts[i].pc = "err"}
    IN  IF failed = {} THEN "ok"
        ELSE ts[CHOOSE i \in failed : \A j \in failed : i <= j].err

\* install_parallel: join_all(tasks).await and the loop over the results
JoinAll ==
    /\ install_pc = "running"
    /\ AllJoined(tasks)
    /\ IF FirstError(tasks) = "ok"
       THEN /\ install_pc' = "bridge"
            /\ UNCHANGED install_result
       ELSE Return(FirstError(tasks))
    /\ UNCHANGED <<packages, archive, tasks, sem_size, disk_writable, permits, temp_files,
                   previous_result, pth_calls, counts, faults>>
    /\ UNCHANGED <<resolverVars, cacheVars, registryVars, fetchVars, callVars, parseVars, skipped, scenario>>

\* what install_parallel returns after create_pth_file().await?
AfterPthFile(created) == IF created THEN "ok" ELSE "PythonEnv"

\* install_parallel: self.package_manager.create_pth_file().await? and Ok(());
\* created is whether python3 answered and the .pth file was written
CreatePthFile(created) ==
    /\ install_pc = "bridge"
    /\ pth_calls' = pth_calls + 1
    /\ Return(AfterPthFile(created))
    /\ UNCHANGED <<packages, archive, tasks, sem_size, disk_writable, permits, temp_files,
                   previous_result, counts, faults>>
    /\ UNCHANGED <<resolverVars, cacheVars, registryVars, fetchVars, callVars, parseVars, skipped, scenario>>

InstallerNext ==
    \/ InstallParallel
    \/ \E i \in 1..Len(tasks), served \in BOOLEAN, kind \in ArchiveKinds :
          InstallSingle(i, served, kind)
    \/ \E i \in 1..Len(tasks) : CachePutArtifact(i)
    \/ \E i \in 1..Len(tasks) : WriteTemp(i)
    \/ \E i \in 1..Len(tasks) : ExtractPackage(i)
    \/ \E i \in 1..Len(tasks) : RemoveTemp(i)
    \/ \E i \in 1..Len(tasks) : RegisterLoad(i)
    \/ \E i \in 1..Len(tasks) : RegisterTruncate(i)
    \/ \E i \in 1..Len(tasks) : RegisterWrite(i)
    \/ JoinAll
    \/ \E created \in BOOLEAN : CreatePthFile(created)

-----------------------------------------------------------------------------
(* Properties of the installer *)

\* install_parallel has returned from a run that spawned tasks
Returned == install_pc = "idle" /\ install_result # NoReturn /\ tasks # <<>>

\* the names of the packages the run set out to install
TaskNames == {tasks[i].pkg.name : i \in 1..Len(tasks)}

DistinctNames == Cardinality(TaskNames) = Len(tasks)

\* the registry as load_registry reads it from the file
Persisted == LoadRegistry(registry_file).packages

\* C12: when install returns ok for a plan whose packages to install have
\* pairwise distinct names, the persisted registry has an entry for each of
\* the names.
C12_NoLostUpdate ==
    (Returned /\ install_result = "ok" /\ DistinctNames) =>
        /\ LoadRegistry(registry_file).ok
        /\ TaskNames \subseteq DOMAIN Persisted

\* C13: at every point of a save the registry file, if it exists, holds a
\* complete document, and no concurrent load fails on an empty or partly
\* written file.
C13_SaveIsAtomic ==
    /\ registry_file.exists => registry_file.valid
    /\ \A i \in 1..Len(tasks) : tasks[i].err # "Config"

\* C14: when the install before returned ok, the next install of the same
\* plan classifies every package as installed: it spawns no task, performs no
\* download, no extraction and no register call, and returns ok.
C14_SecondInstallDoesNothing ==
    previous_result = "ok" =>
        /\ tasks = <<>>
        /\ counts = NoCounts
        /\ install_result = "ok"

\* the tasks between acquiring their permit and finishing
InFlight == {i \in 1..Len(tasks) : tasks[i].pc \notin {"queued", "ok", "err"}}

\* C15: in every state of an install run the number of tasks between
\* acquiring their permit and finishing is at most the number of permits the
\* semaphore was created with.
C15_AtMostMaxConcurrent == Cardinality(InFlight) <= sem_size

\* every permit is taken while another task waits for one
C15_Witness ==
    /\ install_pc = "running"
    /\ Cardinality(InFlight) = sem_size
    /\ \E i \in 1..Len(tasks) : tasks[i].pc = "queued"

\* the steps of a task whose artifact is downloaded, and of one whose artifact
\* comes from the cache, in the order the claim gives them
DownloadOrder ==
    <<"miss", "download", "put", "write_temp", "extract", "remove_temp", "register">>

CacheHitOrder == <<"hit", "write_temp", "extract", "remove_temp", "register">>

IsPrefix(s, t) == Len(s) <= Len(t) /\ SubSeq(t, 1, Len(s)) = s

\* C16: the steps a task has completed without error are, in this order, the
\* download (or the cache hit), the cache put, the extraction and the
\* registration; so a task that registers has extracted without error before.
C16_StepsInOrder ==
    \A i \in 1..Len(tasks) :
        \/ IsPrefix(tasks[i].steps, DownloadOrder)
        \/ IsPrefix(tasks[i].steps, CacheHitOrder)

\* one task went through every step after a download and another task's
\* extraction failed
C16_Witness ==
    /\ \E i \in 1..Len(tasks) :
          tasks[i].pc = "ok" /\ tasks[i].steps = DownloadOrder
    /\ \E i \in 1..Len(tasks) :
          /\ tasks[i].err = "Archive"
          /\ "register" \notin Range(tasks[i].steps)

SomeTaskFailed == \E i \in 1..Len(tasks) : tasks[i].pc = "err"

\* C17: once install_parallel is past join_all, every spawned task has run to
\* its end or to its own error; and when a task failed, install_parallel
\* returns an error, the one of the first failed task.
C17_ErrorAfterAllTasksEnded ==
    /\ install_pc # "running" => \A i \in 1..Len(tasks) : Finished(tasks[i])
    /\ (Returned /\ SomeTaskFailed) =>
           /\ install_result # "ok"
           /\ install_result = FirstError(tasks)

\* install returned the error of a failed task after its sibling had run to
\* its end
C17_Witness ==
    /\ Returned
    /\ install_result = "Network"
    /\ \E i \in 1..Len(tasks) : tasks[i].pc = "err"
    /\ \E i \in 1..Len(tasks) :
          tasks[i].pc = "ok" /\ "register" \in Range(tasks[i].steps)

\* C18: create_pth_file is called at most once in an install run, and when it
\* has been called every spawned task has ended and has succeeded.
C18_BridgeOnceAfterSuccess ==
    /\ pth_calls <= 1
    /\ pth_calls = 1 =>
           /\ tasks # <<>>
           /\ \A i \in 1..Len(tasks) : tasks[i].pc = "ok"

\* create_pth_file has been called after two tasks succeeded
C18_Witness ==
    /\ pth_calls = 1
    /\ Len(tasks) = 2
    /\ \A i \in 1..Len(tasks) : tasks[i].pc = "ok"

\* C19: when every task succeeded and create_pth_file has been called,
\* install_parallel returns ok whether or not create_pth_file failed.
C19_BridgeFailureNotFatal ==
    (Returned /\ pth_calls = 1) => install_result = "ok"

\* the task is the last one of its name, after one of another version
LastOfItsName(i) ==
    /\ \A j \in 1..Len(tasks) : j > i => tasks[j].pkg.name # tasks[i].pkg.name
    /\ \E j \in 1..Len(tasks) :
          /\ j < i
          /\ tasks[j].pkg.name = tasks[i].pkg.name
          /\ tasks[j].pkg.version # tasks[i].pkg.version

\* C20: when install returns ok for a plan that holds two versions of one
\* name, the persisted registry records for the name the version that comes
\* later in the plan.
C20_LaterVersionWins ==
    (Returned /\ install_result = "ok") =>
        \A i \in 1..Len(tasks) :
            LastOfItsName(i) =>
                /\ tasks[i].pkg.name \in DOMAIN Persisted
                /\ Persisted[tasks[i].pkg.name].version = tasks[i].pkg.version

\* C22: no task's temp file is written or removed by another task: a task
\* that has written its temp file and not yet removed it finds there the
\* bytes it wrote.
C22_TempFileNotShared ==
    \A i \in 1..Len(tasks) :
        tasks[i].pc \in {"extract", "remove_temp"} =>
            /\ TempPath(tasks[i].pkg) \in DOMAIN temp_files
            /\ temp_files[TempPath(tasks[i].pkg)] = tasks[i].data

\* C30: no task ends with the error of its cache.put, and a task that has
\* called cache.put goes on with the bytes it downloaded.
C30_PutFailureNotFatal ==
    \A i \in 1..Len(tasks) :
        /\ tasks[i].err # "Cache"
        /\ "put" \in Range(tasks[i].steps) =>
               tasks[i].data = ArtifactBytes(tasks[i].pkg)

\* a task registered its package and returned ok although its cache.put did
\* not write the artifact to L2
C30_Witness ==
    \E i \in 1..Len(tasks) :
        /\ tasks[i].pc = "ok"
        /\ tasks[i].steps = DownloadOrder
        /\ ArtifactKey(tasks[i].pkg) \notin DOMAIN disk
        /\ tasks[i].pkg.name \in DOMAIN Persisted

\* C21: the installed_at of a name's persisted entry never decreases from one
\* state of the registry file to the next: a task about to save its copy of
\* the registry holds, for every name the file has, a time that is not
\* earlier than the file's.
C21_InstalledAtNeverDecreases ==
    \A i \in 1..Len(tasks) :
        (tasks[i].pc = "truncate" /\ LoadRegistry(registry_file).ok) =>
            \A name \in DOMAIN Persisted \cap DOMAIN tasks[i].loaded :
                tasks[i].loaded[name].installed_at >= Persisted[name].installed_at

\* C33: a package the run classified as already installed gets no task, so
\* no download, extraction or register, and when install returns its registry
\* entry (version, install_path, installed_at) is the one it had when it was
\* classified, also when other packages of the plan were installed in the run.
C33_SkippedLeftUntouched ==
    \A s \in skipped :
        /\ \A i \in 1..Len(tasks) : tasks[i].pkg # s.pkg
        /\ Returned =>
               /\ s.pkg.name \in DOMAIN Persisted
               /\ Persisted[s.pkg.name] = s.entry

\* the temp file a task wrote is still at its path
TempFileLeft(t) ==
    /\ "write_temp" \in Range(t.steps)
    /\ TempPath(t.pkg) \in DOMAIN temp_files
    /\ temp_files[TempPath(t.pkg)] = t.data

\* C37: once a per-package task has returned, with Ok or with the error of the
\* extraction, the temp file it wrote no longer exists.
C37_TempFileGone ==
    \A i \in 1..Len(tasks) :
        (tasks[i].pc = "ok" \/ (tasks[i].pc = "err" /\ tasks[i].err = "Archive"))
            => ~TempFileLeft(tasks[i])

\* the tasks whose download_package returned an error
DownloadFailures == {i \in 1..Len(tasks) : tasks[i].err = "Network"}

\* C38: a task whose download fails changes nothing on disk for its package.
\* The failing call leaves the temp files, the install directory, the registry
\* file and the three tiers of the cache as they were, and the task ends there:
\* it has written no temp file, extracted nothing, put nothing in the cache and
\* registered nothing.
C38_FailedDownloadChangesNothing ==
    /\ [](\A i \in DownloadFailures :
              /\ tasks[i].pc = "err"
              /\ tasks[i].steps = <<"miss">>
              /\ tasks[i].data = NoBytes)
    /\ [][\A i \in 1..Len(tasks) :
              (install_pc = "running" /\ tasks[i].err # "Network"
                   /\ tasks'[i].err = "Network")
                  => UNCHANGED <<temp_files, fs_paths, registry_file, disk,
                                 memory, bloom>>]_vars

\* install has returned from a run in which one task's download failed and
\* another task installed its package: the failed one has no temp file, no
\* cached artifact and no registry entry
C38_Witness ==
    /\ Returned
    /\ \E i \in DownloadFailures, j \in 1..Len(tasks) :
          /\ tasks[j].pc = "ok"
          /\ tasks[j].pkg.name # tasks[i].pkg.name
          /\ TempPath(tasks[i].pkg) \notin DOMAIN temp_files
          /\ ArtifactKey(tasks[i].pkg) \notin DOMAIN disk
          /\ tasks[i].pkg.name \notin DOMAIN Persisted

-----------------------------------------------------------------------------
(* The resolver's metadata fetches with a cache attached *)

\* fetch_package_metadata with the cache key built from the name alone
MetadataKeyAnySpec(dep) == "metadata:" \o dep.name \o ":*"

\* format!("metadata:{}:{}", name, version_spec)
MetadataKey(dep) == "metadata:" \o dep.name \o ":" \o dep.version_spec

\* the dependency lists of the packages the index serves to these fetches:
\* none, or one dependency listed twice
FetchDeps == {<<>>} \cup {<<d, d>> : d \in DepKinds}

\* the "urls" arrays of the packages the index serves to these fetches: an
\* empty one, or a wheel without a url followed by a source distribution
FetchUrls ==
    {<<>>, <<UrlInfo("bdist_wheel", ""), UrlInfo("sdist", SdistUrl)>>}

\* the answers the index can give to a query it has not been asked before
FetchAnswers(dep) ==
    {Failure(e) : e \in FetchErrors}
    \cup {GetPackageInfo(dep, deps, urls) : deps \in FetchDeps, urls \in FetchUrls}

RECURSIVE DepsToJson(_)
DepsToJson(deps) ==
    IF deps = <<>> THEN ""
    ELSE "{" \o Head(deps).name \o "," \o Head(deps).version_spec \o "}"
         \o DepsToJson(Tail(deps))

\* serde_json::to_vec(&pkg)
ToVec(pkg) ==
    "{" \o pkg.name \o "," \o pkg.version \o ",[" \o DepsToJson(pkg.dependencies)
    \o "]," \o pkg.download_url \o "}"

NoPackage == [name |-> "", version |-> "", dependencies |-> <<>>, download_url |-> ""]

\* the packages the index can serve
\* the Package values whose JSON a cache entry can be: download_url is any
\* string, the empty one included
ServedPackages ==
    {MkPackage(dep, deps, DownloadUrl(urls)) :
        dep \in DepKinds, deps \in FetchDeps, urls \in UrlArrays}

\* the JSON texts of those packages, each with the package it decodes to
PackageOfJson ==
    [data \in {ToVec(pkg) : pkg \in ServedPackages} |->
        CHOOSE pkg \in ServedPackages : ToVec(pkg) = data]

\* serde_json::from_slice::<Package>(&data): Ok when the bytes are the JSON of
\* a Package
FromSlice(data) ==
    IF data \in DOMAIN PackageOfJson
    THEN [ok |-> TRUE, pkg |-> PackageOfJson[data]]
    ELSE [ok |-> FALSE, pkg |-> NoPackage]

\* MultiLevelCache::get, as the cache stands: the bytes it returns (NoData for
\* None) and the L1 it leaves
GetNow(k) ==
    IF ~BloomCheck(bloom, bloom_seed, k)
    THEN [data |-> NoData, memory |-> memory]
    ELSE IF k \in LruKeys(memory)
    THEN [data |-> memory[LruPos(memory, k)].data, memory |-> LruGet(memory, k)]
    ELSE IF k \in DOMAIN disk
    THEN [data |-> disk[k], memory |-> LruPut(memory, k, disk[k])]
    ELSE [data |-> NoData, memory |-> memory]

\* a fetch_package_metadata future before its first poll
Future(dep) == [dep |-> dep, pc |-> "get", got |-> NoData, pkg |-> NoPackage]

FutureOf(deps) == [i \in 1..Len(deps) |-> Future(deps[i])]

NoQueries == [k \in DepKinds |-> 0]

\* try_join_all has returned: every future is Ok, or one failed and the rest
\* were dropped
Settled(fs) == \A i \in 1..Len(fs) : fs[i].pc \in {"done", "failed", "dropped"}

Joined(fs) == \A i \in 1..Len(fs) : fs[i].pc = "done"

FetchInit ==
    /\ fetches = <<>>
    /\ queries = NoQueries

\* resolve, called once: the empty list returns the empty plan at once, any
\* other list is fetched with try_join_all
FetchDirect(deps) ==
    /\ resolve_result = NoResult
    /\ fetches = <<>>
    /\ hits + misses + Len(deps) <= MaxAccesses
    /\ dependencies' = deps
    /\ IF deps = <<>>
       THEN /\ resolve_result' = OkResult(<<>>)
            /\ UNCHANGED fetches
       ELSE /\ fetches' = FutureOf(deps)
            /\ UNCHANGED resolve_result
    /\ UNCHANGED <<index, issued, rpc, graph, node_map, all_packages, to_process,
                   processed, queries>>
    /\ UNCHANGED <<cacheVars, registryVars, installerVars, callVars, parseVars, skipped, scenario>>

\* resolve, the worklist loop: try_join_all over the dependencies of a
\* package fetched before
FetchDependencies(i) ==
    /\ Joined(fetches)
    /\ fetches[i].pkg.dependencies # <<>>
    /\ hits + misses + Len(fetches[i].pkg.dependencies) <= MaxAccesses
    /\ fetches' = FutureOf(fetches[i].pkg.dependencies)
    /\ UNCHANGED queries
    /\ UNCHANGED <<resolverVars, cacheVars, registryVars, installerVars, callVars, parseVars, skipped, scenario>>

\* fetch_package_metadata: cache.get(&cache_key) and from_slice; the package
\* is returned when the bytes decode
FetchGet(i) ==
    LET got     == GetNow(MetadataKey(fetches[i].dep))
        decoded == FromSlice(got.data)
    IN  /\ fetches[i].pc = "get"
        /\ memory' = got.memory
        /\ hits' = IF got.data = NoData THEN hits ELSE hits + 1
        /\ misses' = IF got.data = NoData THEN misses + 1 ELSE misses
        /\ fetches' = [fetches EXCEPT
                          ![i].pc = IF decoded.ok THEN "done" ELSE "query",
                          ![i].got = got.data,
                          ![i].pkg = decoded.pkg]
        /\ UNCHANGED <<disk, bloom, bloom_seed, cache_result, committed, persisted>>
        /\ UNCHANGED queries
        /\ UNCHANGED <<resolverVars, registryVars, installerVars, callVars, parseVars, skipped, scenario>>

\* try_join_all after a future returned Err: the error is returned at once
\* and the futures not yet finished are dropped
Cancelled(fs, i) ==
    [j \in 1..Len(fs) |->
        IF j = i THEN [fs[j] EXCEPT !.pc = "failed"]
        ELSE IF fs[j].pc = "done" THEN fs[j]
        ELSE [fs[j] EXCEPT !.pc = "dropped"]]

\* fetch_package_metadata: self.client.get_package_info(name, spec).await?
FetchQuery(i, answer) ==
    LET dep == fetches[i].dep
    IN  /\ fetches[i].pc = "query"
        /\ answer \in (IF index[dep].status = "unknown" THEN FetchAnswers(dep)
                       ELSE {index[dep]})
        /\ index' = [index EXCEPT ![dep] = answer]
        /\ queries' = [queries EXCEPT ![dep] = @ + 1]
        /\ fetches' = IF answer.status = "ok"
                      THEN [fetches EXCEPT ![i].pc = "put", ![i].pkg = answer.pkg]
                      ELSE Cancelled(fetches, i)
        /\ UNCHANGED <<dependencies, issued, rpc, graph, node_map, all_packages,
                       to_process, processed, resolve_result>>
        /\ UNCHANGED <<cacheVars, registryVars, installerVars, callVars, parseVars, skipped, scenario>>

\* fetch_package_metadata: let _ = cache.put(cache_key, to_vec(&pkg)).await and
\* Ok(pkg); written is whether the sled insert succeeded
FetchPut(i, written) ==
    LET k    == MetadataKey(fetches[i].dep)
        data == ToVec(fetches[i].pkg)
    IN  /\ fetches[i].pc = "put"
        /\ bloom' = BloomSet(bloom, bloom_seed, k)
        /\ memory' = LruPut(memory, k, data)
        /\ disk' = IF written THEN DiskInsert(disk, k, data) ELSE disk
        /\ fetches' = [fetches EXCEPT ![i].pc = "done"]
        /\ UNCHANGED <<bloom_seed, hits, misses, cache_result, committed, persisted>>
        /\ UNCHANGED queries
        /\ UNCHANGED <<resolverVars, registryVars, installerVars, callVars, parseVars, skipped, scenario>>

\* the fetch that made try_join_all return Err
FailedFetch(fs) == CHOOSE i \in 1..Len(fs) : fs[i].pc = "failed"

\* the packages try_join_all returns, in the order of the futures
JoinedPackages(fs) == [i \in 1..Len(fs) |-> fs[i].pkg]

\* resolve returns: the error of a try_join_all that failed, or, when the
\* direct dependencies were fetched and none of them has dependencies of its
\* own, the plan made of the fetched packages
FetchReturn ==
    /\ resolve_result = NoResult
    /\ fetches # <<>>
    /\ Settled(fetches)
    /\ IF ~Joined(fetches)
       THEN resolve_result' = ErrResult(index[fetches[FailedFetch(fetches)].dep].err)
       ELSE /\ [i \in 1..Len(fetches) |-> fetches[i].dep] = dependencies
            /\ \A i \in 1..Len(fetches) : fetches[i].pkg.dependencies = <<>>
            /\ LET st == AddRootPackages(
                             BuildState(EmptyGraph, EmptyMap, EmptyMap, <<>>),
                             JoinedPackages(fetches))
                   sorted == Toposort(st.graph)
               IN  resolve_result' =
                       IF sorted.ok
                       THEN OkResult(PlanOf(st.graph, st.all_packages, sorted.order))
                       ELSE ErrResult("ResolutionFailed")
    /\ UNCHANGED <<dependencies, index, issued, rpc, graph, node_map, all_packages,
                   to_process, processed, fetchVars>>
    /\ UNCHANGED <<cacheVars, registryVars, installerVars, callVars, parseVars, skipped, scenario>>

\* the install command goes on with the plan resolve returned, here the
\* empty one: installer.install_parallel(resolved)
InstallEmptyPlan ==
    /\ resolve_result = OkResult(<<>>)
    /\ packages = resolve_result.plan
    /\ InstallParallel

FetchNext ==
    \/ \E deps \in SeqsUpTo(DepKinds, MaxDirect) : FetchDirect(deps)
    \/ \E i \in 1..Len(fetches) : FetchDependencies(i)
    \/ \E i \in 1..Len(fetches) : FetchGet(i)
    \/ \E i \in 1..Len(fetches), answer \in UNION {FetchAnswers(d) : d \in DepKinds} :
          FetchQuery(i, answer)
    \/ \E i \in 1..Len(fetches), written \in BOOLEAN : FetchPut(i, written)
    \/ FetchReturn
    \/ InstallEmptyPlan

-----------------------------------------------------------------------------
(* Properties of the metadata fetches *)

\* the fetch of future i took the step from pc to pc2
Stepped(i, pc, pc2) ==
    /\ i \in DOMAIN fetches /\ i \in DOMAIN fetches'
    /\ fetches'[i].dep = fetches[i].dep
    /\ fetches[i].pc = pc
    /\ fetches'[i].pc = pc2

\* the bytes a get of the key 'metadata:<name>:<spec>' would return
Readable(dep, mem, bits) ==
    LET k == "metadata:" \o dep.name \o ":" \o dep.version_spec
    IN  IF BloomCheck(bits, bloom_seed, k) /\ k \in LruKeys(mem)
        THEN mem[LruPos(mem, k)].data
        ELSE NoData

\* C27: a fetch queries the index only after its get of
\* 'metadata:<name>:<spec>' returned nothing or bytes that are no Package;
\* when the query succeeded the package is stored under that key; a failed
\* query stores nothing.
C27_ReadThrough ==
    [][\A i \in 1..Len(fetches) :
          /\ (Stepped(i, "query", "put") \/ Stepped(i, "query", "failed")) =>
                 (fetches[i].got = NoData \/ ~FromSlice(fetches[i].got).ok)
          /\ Stepped(i, "put", "done") =>
                 /\ Readable(fetches[i].dep, memory', bloom') # NoData
                 /\ FromSlice(Readable(fetches[i].dep, memory', bloom')).pkg
                        = index[fetches[i].dep].pkg
          /\ Stepped(i, "query", "failed") => UNCHANGED <<memory, disk, bloom>>
      ]_vars

\* a fetch whose get returned bytes that are no Package has queried the index
\* and stored the package
C27_Witness ==
    \E i \in 1..Len(fetches) :
        /\ fetches[i].pc = "done"
        /\ fetches[i].got # NoData
        /\ ~FromSlice(fetches[i].got).ok
        /\ queries[fetches[i].dep] = 1
        /\ Readable(fetches[i].dep, memory, bloom) = ToVec(index[fetches[i].dep].pkg)

\* C28: during one resolve the index is queried at most once for each
\* (name, spec).
C28_AtMostOnce == \A k \in DepKinds : queries[k] <= 1

\* C23: resolve of the empty list returns the empty plan and queries neither
\* the index nor the cache; install of the empty plan returns ok and creates
\* no install root, spawns no task, leaves the registry alone and does not
\* call the bridge.
C23_EmptyIsNoOp ==
    /\ (dependencies = <<>> /\ resolve_result # NoResult) =>
           /\ resolve_result = OkResult(<<>>)
           /\ issued = {}
           /\ queries = NoQueries
           /\ fetches = <<>>
           /\ hits + misses = 0
    /\ (packages = <<>> /\ install_result # NoReturn) =>
           /\ install_result = "ok"
           /\ InstallDir \notin fs_paths
           /\ tasks = <<>>
           /\ registry_file = NoRegistryFile
           /\ pth_calls = 0

\* the empty list was resolved and the empty plan installed, with a cache
\* attached that holds an entry
C23_Witness ==
    /\ dependencies = <<>>
    /\ resolve_result = OkResult(<<>>)
    /\ packages = <<>>
    /\ install_result = "ok"
    /\ memory # <<>>

\* C31: every package of a plan resolve returns, and every package a fetch
\* returns, has a non-empty download_url, whether the fetch took it from the
\* index or from the cache; a "urls" array that gives no download URL makes
\* get_package_info fail with PackageNotFound, and resolve returns the error
\* of the fetch that failed.
C31_PlanHasDownloadUrls ==
    /\ \A i \in 1..Len(resolve_result.plan) : resolve_result.plan[i].download_url # ""
    /\ \A i \in 1..Len(fetches) :
           fetches[i].pc \in {"put", "done"} => fetches[i].pkg.download_url # ""
    /\ \A dep \in DepKinds, deps \in FetchDeps, urls \in UrlArrays :
           DownloadUrl(urls) = "" =>
               GetPackageInfo(dep, deps, urls) = Failure("PackageNotFound")
    /\ \A i \in 1..Len(fetches) :
           (fetches[i].pc = "failed" /\ resolve_result # NoResult) =>
               resolve_result = ErrResult(index[fetches[i].dep].err)

\* resolve returned a plan of two packages, the first fetched from the index
\* and the second read from the cache
C31_Witness ==
    /\ resolve_result.ok
    /\ Len(resolve_result.plan) = 2
    /\ Len(fetches) = 2
    /\ fetches[1].got = NoData
    /\ FromSlice(fetches[2].got).ok

-----------------------------------------------------------------------------
(* Callers sharing one cache: MultiLevelCache::get, lock by lock *)

Callers == 1..MaxCallers

\* the keys the callers ask for and the bytes they store
CallKeys == {"package:a:1", "package:b:1"}

CallData == "v1"

\* a caller that is in no call
NoCall == [pc |-> "idle", key |-> "", data |-> NoData]

CallsInit ==
    /\ gets = [c \in Callers |-> NoCall]
    /\ completed = 0
    /\ puts = [c \in Callers |-> NoCall]
    /\ clearing = "idle"

GetsRunning == Cardinality({c \in Callers : gets[c].pc # "idle"})

\* where a get call is after one of its steps
At(c, pc, k, data) == [gets EXCEPT ![c] = [pc |-> pc, key |-> k, data |-> data]]

\* a get call returns to its caller
Returns(c, k, found, data, tier) ==
    /\ gets' = [gets EXCEPT ![c] = NoCall]
    /\ completed' = completed + 1
    /\ cache_result' = CacheResult("get", k, found, data, tier)

\* get, under the filter's read lock: a key the filter does not hold is
\* counted as a miss before the lock is released
GetFilter(c, k) ==
    /\ gets[c].pc = "idle"
    /\ hits + misses + GetsRunning < MaxAccesses
    /\ IF ~BloomCheck(bloom, bloom_seed, k)
       THEN /\ misses' = misses + 1
            /\ Returns(c, k, FALSE, NoData, "filter")
       ELSE /\ gets' = At(c, "memory", k, NoData)
            /\ UNCHANGED <<misses, completed, cache_result>>
    /\ UNCHANGED <<memory, disk, bloom, bloom_seed, hits, committed, persisted>>
    /\ UNCHANGED <<resolverVars, registryVars, installerVars, fetchVars, parseVars, skipped, puts, clearing, scenario>>

\* get, under the memory map's write lock: a key found there is counted as a
\* hit before the lock is released
GetMemory(c) ==
    LET k == gets[c].key
    IN  /\ gets[c].pc = "memory"
        /\ IF k \in LruKeys(memory)
           THEN /\ memory' = LruGet(memory, k)
                /\ hits' = hits + 1
                /\ Returns(c, k, TRUE, memory[LruPos(memory, k)].data, "memory")
           ELSE /\ gets' = At(c, "disk", k, NoData)
                /\ UNCHANGED <<memory, hits, completed, cache_result>>
        /\ UNCHANGED <<disk, bloom, bloom_seed, misses, committed, persisted>>
        /\ UNCHANGED <<resolverVars, registryVars, installerVars, fetchVars, parseVars, skipped, puts, clearing, scenario>>

\* get reads the key from the disk store, holding no lock
GetDisk(c) ==
    LET k == gets[c].key
    IN  /\ gets[c].pc = "disk"
        /\ gets' = IF k \in DOMAIN disk THEN At(c, "promote", k, disk[k])
                   ELSE At(c, "count_miss", k, NoData)
        /\ UNCHANGED <<completed, cacheVars>>
        /\ UNCHANGED <<resolverVars, registryVars, installerVars, fetchVars, parseVars, skipped, puts, clearing, scenario>>

\* get puts what it read from the disk store into the memory map
GetPromote(c) ==
    /\ gets[c].pc = "promote"
    /\ memory' = LruPut(memory, gets[c].key, gets[c].data)
    /\ gets' = At(c, "count_hit", gets[c].key, gets[c].data)
    /\ UNCHANGED <<disk, bloom, bloom_seed, hits, misses, cache_result, committed,
                   persisted, completed>>
    /\ UNCHANGED <<resolverVars, registryVars, installerVars, fetchVars, parseVars, skipped, puts, clearing, scenario>>

\* a get that returns the bytes without counting the hit
GetReturnsUncounted(c) ==
    /\ gets[c].pc = "count_hit"
    /\ Returns(c, gets[c].key, TRUE, gets[c].data, "disk")
    /\ UNCHANGED <<memory, disk, bloom, bloom_seed, hits, misses, committed, persisted>>
    /\ UNCHANGED <<resolverVars, registryVars, installerVars, fetchVars, parseVars, skipped, puts, clearing, scenario>>

\* get counts the hit under the counter's write lock and returns the bytes
GetCountHit(c) ==
    /\ gets[c].pc = "count_hit"
    /\ hits' = hits + 1
    /\ Returns(c, gets[c].key, TRUE, gets[c].data, "disk")
    /\ UNCHANGED <<memory, disk, bloom, bloom_seed, misses, committed, persisted>>
    /\ UNCHANGED <<resolverVars, registryVars, installerVars, fetchVars, parseVars, skipped, puts, clearing, scenario>>

\* get counts the miss under the counter's write lock and returns nothing
GetCountMiss(c) ==
    /\ gets[c].pc = "count_miss"
    /\ misses' = misses + 1
    /\ Returns(c, gets[c].key, FALSE, NoData, "none")
    /\ UNCHANGED <<memory, disk, bloom, bloom_seed, hits, committed, persisted>>
    /\ UNCHANGED <<resolverVars, registryVars, installerVars, fetchVars, parseVars, skipped, puts, clearing, scenario>>

\* a clear call between the steps of the get calls
ClearCall(cleared) ==
    /\ Clear(cleared)
    /\ completed' = IF cleared THEN 0 ELSE completed
    /\ UNCHANGED gets
    /\ UNCHANGED <<resolverVars, registryVars, installerVars, fetchVars, parseVars, skipped, puts, clearing, scenario>>

CallsNext ==
    \/ \E c \in Callers, k \in CallKeys : GetFilter(c, k)
    \/ \E c \in Callers : GetMemory(c)
    \/ \E c \in Callers : GetDisk(c)
    \/ \E c \in Callers : GetPromote(c)
    \/ \E c \in Callers : GetCountHit(c)
    \/ \E c \in Callers : GetCountMiss(c)
    \/ \E k \in CallKeys : CachePut(k, CallData, TRUE)
    \/ \E cleared \in BOOLEAN : ClearCall(cleared)

-----------------------------------------------------------------------------
(* Properties of the callers *)

-----------------------------------------------------------------------------
(* Calls that overlap: MultiLevelCache::put and clear, lock by lock *)

\* one more key than the memory map holds; the first of them is the key the
\* overlapping get and put calls are about
RaceKeys == {HashedKeyList[i] : i \in 1..(MemoryCacheEntries + 1)}

RaceKey == HashedKeyList[1]

RECURSIVE AfterPuts(_, _, _)
\* the cache after put(k, v) calls, one after the other, for the first n keys
AfterPuts(seed, n, v) ==
    IF n = 0 THEN [memory |-> <<>>, disk |-> EmptyMap, bloom |-> {}]
    ELSE LET st == AfterPuts(seed, n - 1, v)
             k  == HashedKeyList[n]
         IN  [memory |-> LruPut(st.memory, k, v),
              disk   |-> DiskInsert(st.disk, k, v),
              bloom  |-> BloomSet(st.bloom, seed, k)]

\* a cache that has taken a put for each of the keys, the raced key first: the
\* memory map has dropped that key, the disk store and the filter hold it
CacheAfterPuts ==
    /\ bloom_seed \in BloomSeeds
    /\ LET st == AfterPuts(bloom_seed, MemoryCacheEntries + 1, "v1")
       IN  /\ memory = st.memory
           /\ disk = st.disk
           /\ bloom = st.bloom
    /\ hits = 0
    /\ misses = 0
    /\ cache_result = CacheResult("put", HashedKeyList[MemoryCacheEntries + 1], TRUE, "v1", "")
    /\ committed = [k \in CacheKeys |-> IF k \in RaceKeys THEN "v1" ELSE NoData]
    /\ persisted = [k \in CacheKeys |-> IF k \in RaceKeys THEN "v1" ELSE NoData]

\* where a put call is after one of its steps
PutAt(c, pc, k, data) == [puts EXCEPT ![c] = [pc |-> pc, key |-> k, data |-> data]]

\* put, under the filter's write lock: bloom.set(&key)
PutFilter(c, k, v) ==
    /\ puts[c].pc = "idle"
    /\ bloom' = BloomSet(bloom, bloom_seed, k)
    /\ puts' = PutAt(c, "memory", k, v)
    /\ UNCHANGED <<memory, disk, bloom_seed, hits, misses, cache_result, committed,
                   persisted>>
    /\ UNCHANGED <<gets, completed, clearing>>
    /\ UNCHANGED <<resolverVars, registryVars, installerVars, fetchVars, parseVars, skipped, scenario>>

\* put, under the memory map's write lock: memory.put(key, data)
PutMemory(c) ==
    /\ puts[c].pc = "memory"
    /\ memory' = LruPut(memory, puts[c].key, puts[c].data)
    /\ puts' = PutAt(c, "disk", puts[c].key, puts[c].data)
    /\ UNCHANGED <<disk, bloom, bloom_seed, hits, misses, cache_result, committed,
                   persisted>>
    /\ UNCHANGED <<gets, completed, clearing>>
    /\ UNCHANGED <<resolverVars, registryVars, installerVars, fetchVars, parseVars, skipped, scenario>>

\* put: self.disk.insert(key, data)? succeeds and the call returns Ok
PutDisk(c) ==
    LET k == puts[c].key
        v == puts[c].data
    IN  /\ puts[c].pc = "disk"
        /\ disk' = DiskInsert(disk, k, v)
        /\ puts' = [puts EXCEPT ![c] = NoCall]
        /\ cache_result' = CacheResult("put", k, TRUE, v, "")
        /\ committed' = [committed EXCEPT ![k] = v]
        /\ persisted' = [persisted EXCEPT ![k] = v]
        /\ UNCHANGED <<memory, bloom, bloom_seed, hits, misses>>
        /\ UNCHANGED <<gets, completed, clearing>>
        /\ UNCHANGED <<resolverVars, registryVars, installerVars, fetchVars, parseVars, skipped, scenario>>

\* clear, under the memory map's write lock: memory.clear()
ClearMemory ==
    /\ clearing = "idle"
    /\ memory' = <<>>
    /\ clearing' = "disk"
    /\ UNCHANGED <<disk, bloom, bloom_seed, hits, misses, cache_result, committed,
                   persisted>>
    /\ UNCHANGED <<gets, completed, puts>>
    /\ UNCHANGED <<resolverVars, registryVars, installerVars, fetchVars, parseVars, skipped, scenario>>

\* clear: self.disk.clear()? succeeds
ClearDisk ==
    /\ clearing = "disk"
    /\ disk' = EmptyMap
    /\ clearing' = "bloom"
    /\ UNCHANGED <<memory, bloom, bloom_seed, hits, misses, cache_result, committed,
                   persisted>>
    /\ UNCHANGED <<gets, completed, puts>>
    /\ UNCHANGED <<resolverVars, registryVars, installerVars, fetchVars, parseVars, skipped, scenario>>

\* clear, under the filter's write lock: a new, empty filter
ClearFilter ==
    /\ clearing = "bloom"
    /\ bloom' = {}
    /\ bloom_seed' \in BloomSeeds
    /\ clearing' = "hits"
    /\ UNCHANGED <<memory, disk, hits, misses, cache_result, committed, persisted>>
    /\ UNCHANGED <<gets, completed, puts>>
    /\ UNCHANGED <<resolverVars, registryVars, installerVars, fetchVars, parseVars, skipped, scenario>>

\* clear, under the counter's write lock: hits = 0
ClearHits ==
    /\ clearing = "hits"
    /\ hits' = 0
    /\ clearing' = "misses"
    /\ UNCHANGED <<memory, disk, bloom, bloom_seed, misses, cache_result, committed,
                   persisted>>
    /\ UNCHANGED <<gets, completed, puts>>
    /\ UNCHANGED <<resolverVars, registryVars, installerVars, fetchVars, parseVars, skipped, scenario>>

\* clear, under the counter's write lock: misses = 0, and the call returns Ok
ClearMisses ==
    /\ clearing = "misses"
    /\ misses' = 0
    /\ clearing' = "idle"
    /\ completed' = 0
    /\ cache_result' = CacheResult("clear", "", TRUE, NoData, "")
    /\ committed' = NothingCommitted
    /\ persisted' = NothingCommitted
    /\ UNCHANGED <<memory, disk, bloom, bloom_seed, hits>>
    /\ UNCHANGED <<gets, puts>>
    /\ UNCHANGED <<resolverVars, registryVars, installerVars, fetchVars, parseVars, skipped, scenario>>

\* no put call is running
NoPutRunning == \A c \in Callers : puts[c].pc = "idle"

\* get calls on one key that overlap each other and the put calls on it; the
\* put calls come one after the other
GetPutNext ==
    \/ \E c \in Callers : GetFilter(c, RaceKey)
    \/ \E c \in Callers : GetMemory(c)
    \/ \E c \in Callers : GetDisk(c)
    \/ \E c \in Callers : GetPromote(c)
    \/ \E c \in Callers : GetCountHit(c)
    \/ \E c \in Callers : GetCountMiss(c)
    \/ \E c \in Callers, v \in Datas : NoPutRunning /\ PutFilter(c, RaceKey, v)
    \/ \E c \in Callers : PutMemory(c)
    \/ \E c \in Callers : PutDisk(c)

\* put calls and a clear call that overlap
PutClearNext ==
    \/ \E c \in Callers, k \in CallKeys : PutFilter(c, k, CallData)
    \/ \E c \in Callers : PutMemory(c)
    \/ \E c \in Callers : PutDisk(c)
    \/ ClearMemory
    \/ ClearDisk
    \/ ClearFilter
    \/ ClearHits
    \/ ClearMisses

-----------------------------------------------------------------------------
(* Properties of the overlapping calls *)

\* no get, put or clear call is running
Quiescent ==
    /\ \A c \in Callers : gets[c].pc = "idle" /\ puts[c].pc = "idle"
    /\ clearing = "idle"

\* what a get of the key would return now: the bytes, or NoData
Lookup(k) ==
    IF ~BloomCheck(bloom, bloom_seed, k) THEN NoData
    ELSE IF k \in LruKeys(memory) THEN memory[LruPos(memory, k)].data
    ELSE IF k \in DOMAIN disk THEN disk[k]
    ELSE NoData

\* C35: when get and put calls on one key have overlapped in any way (and no
\* clear ran) and all have returned, the memory map and the disk store hold the
\* same bytes for every key both hold, and a get of the key returns the bytes
\* of the last put that returned.
C35_TiersAgreeAfterGetAndPut ==
    Quiescent =>
        /\ \A k \in LruKeys(memory) \cap DOMAIN disk :
               memory[LruPos(memory, k)].data = disk[k]
        /\ Lookup(RaceKey) = committed[RaceKey]

\* C36: when put calls and a clear call have overlapped in any way and all
\* have returned Ok, every key is either absent from the memory map and the
\* disk store, or held by the filter with a get returning the bytes put; no
\* key is stored while the filter misses it.
C36_PutAndClearAgree ==
    Quiescent =>
        \A k \in CallKeys :
            \/ k \notin LruKeys(memory) /\ k \notin DOMAIN disk
            \/ BloomCheck(bloom, bloom_seed, k) /\ Lookup(k) = CallData

-----------------------------------------------------------------------------
(* The dependency parser of the index client: parse_dependency *)

\* the pieces the requirement strings are made of
Tokens == {"req", "1.0", " ", "(", ")", ";", "[", "==", ">=", "<=", "~=", "!="}

RECURSIVE Texts(_)
\* the strings of up to n pieces
Texts(n) ==
    IF n = 0 THEN {""}
    ELSE Texts(n - 1) \cup {t \o w : t \in Texts(n - 1), w \in Tokens}

\* the requirement strings given to the parser
Requirements ==
    Texts(MaxTokens)
    \cup {"req (>=1.0)", "req[extra]; python>'3'", "req==2.5", "req~=1.0"}

\* str::find: the position of the first occurrence of pat in s, counted from
\* 1, and 0 when there is none
Find(s, pat) ==
    LET at == {i \in 1..(Len(s) - Len(pat) + 1) : SubSeq(s, i, i + Len(pat) - 1) = pat}
    IN  IF at = {} THEN 0 ELSE CHOOSE i \in at : \A j \in at : i <= j

\* str::contains
Contains(s, pat) == Find(s, pat) # 0

\* s.split(c).next(): the text before the first c, all of s when it has none
SplitNext(s, c) == IF Contains(s, c) THEN SubSeq(s, 1, Find(s, c) - 1) ELSE s

RECURSIVE TrimEndMatches(_, _)
\* str::trim_end_matches: strips every trailing repetition of pat
TrimEndMatches(s, pat) ==
    IF Len(s) >= Len(pat) /\ SubSeq(s, Len(s) - Len(pat) + 1, Len(s)) = pat
    THEN TrimEndMatches(SubSeq(s, 1, Len(s) - Len(pat)), pat)
    ELSE s

\* str::trim
Trim(s) == TrimEndMatches(TrimStartMatches(s, " "), " ")

\* the operators of the "for op in" loop, in its order
Operators == <<"==", ">=", "<=", "~=", "!=">>

NoDependency == [some |-> FALSE, name |-> "", version |-> ""]

SomeDependency(name, version) == [some |-> TRUE, name |-> name, version |-> version]

RECURSIVE SplitAtOperator(_, _)
\* "for op in &[...]": the split at the first operator of the list that
\* occurs in the string, None when none does
SplitAtOperator(s, ops) ==
    IF ops = <<>> THEN NoDependency
    ELSE IF Contains(s, Head(ops))
    THEN SomeDependency(Trim(SubSeq(s, 1, Find(s, Head(ops)) - 1)),
                        Trim(SubSeq(s, Find(s, Head(ops)), Len(s))))
    ELSE SplitAtOperator(s, Tail(ops))

\* the text parse_dependency works on: the string up to the first ';', and
\* of that the part up to the first '[', trimmed
Truncated(dep_str) == Trim(SplitNext(Trim(SplitNext(dep_str, ";")), "["))

\* parse_dependency
ParseDependencyOf(dep_str) ==
    LET s == Truncated(dep_str)
    IN  IF Contains(s, "(")
        THEN SomeDependency(
                 Trim(SubSeq(s, 1, Find(s, "(") - 1)),
                 Trim(TrimEndMatches(SubSeq(s, Find(s, "(") + 1, Len(s)), ")")))
        ELSE IF Contains(s, "==") \/ Contains(s, ">=") \/ Contains(s, "<=")
        THEN SplitAtOperator(s, Operators)
        ELSE SomeDependency(s, "*")

NotParsed == [some |-> FALSE, name |-> "", version |-> "pending"]

ParseInit ==
    /\ requirement \in Requirements
    /\ parsed = NotParsed

\* the parser is not in use
ParseIdle ==
    /\ requirement = ""
    /\ parsed = NotParsed

\* get_package_info parses one string of "requires_dist"
ParseDependency ==
    /\ parsed = NotParsed
    /\ parsed' = ParseDependencyOf(requirement)
    /\ UNCHANGED requirement
    /\ UNCHANGED <<resolverVars, cacheVars, registryVars, installerVars, fetchVars,
                   callVars, skipped, scenario>>

ParseNext == ParseDependency

-----------------------------------------------------------------------------
(* Properties of the dependency parser *)

\* the operators the specification lists
ListedOperators == {"==", ">=", "<=", "~=", "!="}

\* the position of the first occurrence of any listed operator, 0 for none
FirstOperator(s) ==
    LET at == {Find(s, op) : op \in ListedOperators} \ {0}
    IN  IF at = {} THEN 0 ELSE CHOOSE i \in at : \A j \in at : i <= j

\* C32: for a requirement string that, truncated at the first ';' and the
\* first '[', has no '(': when it contains one of ==, >=, <=, ~=, != the
\* parser returns (trimmed text before the first operator occurrence, text
\* from that operator on), and it returns (name, '*') only when the string
\* contains none of them; 'req (>=1.0)' gives ('req', '>=1.0'), 'req==2.5'
\* gives ('req', '==2.5') and 'req~=1.0' gives ('req', '~=1.0').
C32_SplitsAtFirstOperator ==
    parsed # NotParsed =>
        LET s   == Truncated(requirement)
            pos == FirstOperator(s)
        IN  /\ (~Contains(s, "(") /\ pos # 0) =>
                   parsed = SomeDependency(Trim(SubSeq(s, 1, pos - 1)),
                                           SubSeq(s, pos, Len(s)))
            /\ (~Contains(s, "(") /\ parsed.some /\ parsed.version = "*") => pos = 0
            /\ requirement = "req (>=1.0)" => parsed = SomeDependency("req", ">=1.0")
            /\ requirement = "req==2.5" => parsed = SomeDependency("req", "==2.5")
            /\ requirement = "req~=1.0" => parsed = SomeDependency("req", "~=1.0")

-----------------------------------------------------------------------------

\* the values the variables of a component keep while another one runs
ResolverIdle ==
    /\ dependencies = <<>>
    /\ index = [k \in DepKinds |-> Unknown]
    /\ issued = {}
    /\ rpc = "idle"
    /\ graph = EmptyGraph
    /\ node_map = EmptyMap
    /\ all_packages = EmptyMap
    /\ to_process = <<>>
    /\ processed = {}
    /\ resolve_result = NoResult

CacheIdle ==
    /\ memory = <<>>
    /\ disk = EmptyMap
    /\ bloom = {}
    /\ bloom_seed = 0
    /\ hits = 0
    /\ misses = 0
    /\ cache_result = CacheResult("new", "", TRUE, NoData, "")
    /\ committed = NothingCommitted
    /\ persisted = NothingCommitted

RegistryIdle ==
    /\ registry_file = NoRegistryFile
    /\ fs_paths = {}
    /\ clock = 0
    /\ pm_result = PmResult("new", "", "", "ok", NoRegistryFile)

InstallerIdle ==
    /\ packages = <<>>
    /\ archive = [p \in PlanPackages |-> UnknownArchive]
    /\ install_pc = "idle"
    /\ tasks = <<>>
    /\ sem_size = 1
    /\ disk_writable = TRUE
    /\ permits = 0
    /\ temp_files = EmptyMap
    /\ install_result = NoReturn
    /\ previous_result = NoReturn
    /\ pth_calls = 0
    /\ counts = NoCounts
    /\ faults = 0

InitResolver ==
    /\ scenario = "resolver"
    /\ ResolverInit /\ CacheIdle /\ RegistryIdle /\ InstallerIdle /\ FetchInit /\ CallsInit
    /\ ParseIdle /\ skipped = {}

InitCache ==
    /\ scenario = "cache"
    /\ ResolverIdle /\ CacheInit /\ RegistryIdle /\ InstallerIdle /\ FetchInit /\ CallsInit
    /\ ParseIdle /\ skipped = {}

InitRegistry ==
    /\ scenario = "registry"
    /\ ResolverIdle /\ CacheIdle /\ RegistryInit /\ InstallerIdle /\ FetchInit /\ CallsInit
    /\ ParseIdle /\ skipped = {}

\* a fresh cache and no registry file yet, and a plan to install
InitInstaller ==
    /\ scenario = "installer"
    /\ ResolverIdle /\ CacheIdle /\ RegistryIdle /\ InstallerInit /\ FetchInit /\ CallsInit
    /\ ParseIdle /\ skipped = {}

\* the cache after another user of it has put bytes that are no Package
\* under a metadata key
CacheAfterForeignPut ==
    LET k == MetadataKey([name |-> "a", version_spec |-> "*"])
        v == CHOOSE d \in Datas : TRUE
    IN  /\ bloom_seed \in BloomSeeds
        /\ bloom = BloomSet({}, bloom_seed, k)
        /\ memory = LruPut(<<>>, k, v)
        /\ disk = DiskInsert(EmptyMap, k, v)
        /\ hits = 0
        /\ misses = 0
        /\ cache_result = CacheResult("put", k, TRUE, v, "")
        /\ committed = [NothingCommitted EXCEPT ![k] = v]
        /\ persisted = [NothingCommitted EXCEPT ![k] = v]

\* a resolver with a cache attached, before its first resolve
InitFetch ==
    /\ scenario = "fetch"
    /\ CacheInit \/ CacheAfterForeignPut
    /\ ResolverIdle /\ RegistryIdle /\ InstallerIdle /\ FetchInit /\ CallsInit
    /\ ParseIdle /\ skipped = {}

\* several callers of one fresh cache
InitCalls ==
    /\ scenario = "calls"
    /\ ResolverIdle /\ CacheInit /\ RegistryIdle /\ InstallerIdle /\ FetchInit /\ CallsInit
    /\ ParseIdle /\ skipped = {}

\* get and put calls about to overlap, on a new cache or on one that holds the
\* key in its disk store only
InitGetPut ==
    /\ scenario = "getput"
    /\ ResolverIdle /\ (CacheInit \/ CacheAfterPuts) /\ RegistryIdle /\ InstallerIdle /\ FetchInit /\ CallsInit
    /\ ParseIdle /\ skipped = {}

\* put and clear calls about to overlap on a new cache
InitPutClear ==
    /\ scenario = "putclear"
    /\ ResolverIdle /\ CacheInit /\ RegistryIdle /\ InstallerIdle /\ FetchInit /\ CallsInit
    /\ ParseIdle /\ skipped = {}

\* a requirement string before it is parsed
InitParse ==
    /\ scenario = "parse"
    /\ ResolverIdle /\ CacheIdle /\ RegistryIdle /\ InstallerIdle /\ FetchInit /\ CallsInit
    /\ ParseInit /\ skipped = {}

Init ==
    \/ InitResolver \/ InitCache \/ InitRegistry \/ InitInstaller \/ InitFetch
    \/ InitCalls \/ InitParse \/ InitGetPut \/ InitPutClear

Next ==
    \/ scenario = "resolver" /\ ResolverNext
    \/ scenario = "cache" /\ CacheNext
    \/ scenario = "registry" /\ RegistryNext
    \/ scenario = "installer" /\ InstallerNext
    \/ scenario = "fetch" /\ FetchNext
    \/ scenario = "calls" /\ CallsNext
    \/ scenario = "parse" /\ ParseNext
    \/ scenario = "getput" /\ GetPutNext
    \/ scenario = "putclear" /\ PutClearNext

Spec == Init /\ [][Next]_vars

SpecResolver == InitResolver /\ [][ResolverNext]_vars

SpecCache == InitCache /\ [][CacheNext]_vars

SpecRegistry == InitRegistry /\ [][RegistryNext]_vars

SpecInstaller == InitInstaller /\ [][InstallerNext]_vars

SpecFetch == InitFetch /\ [][FetchNext]_vars

SpecCalls == InitCalls /\ [][CallsNext]_vars

SpecParse == InitParse /\ [][ParseNext]_vars

SpecGetPut == InitGetPut /\ [][GetPutNext]_vars

SpecPutClear == InitPutClear /\ [][PutClearNext]_vars
====
